---- MODULE Spec2Model ----
(***************************************************************************)
(* NetArchitect: the command-mode interpreter of the terminal window       *)
(* (TerminalWindow.handleCommand and its helpers) and the reachability     *)
(* engine (services/rules.ts findPath).                                    *)
(*                                                                         *)
(* Text is modelled as a sequence of one-character strings, so that        *)
(* trimming, splitting, lower-casing, prefix tests, parseInt and padStart  *)
(* are computed character by character as the JavaScript does.             *)
(***************************************************************************)
EXTENDS Integers, Sequences, FiniteSets, TLC

VARIABLES
    nodes,          \* App state: the device list (NetworkNode[]), in array order
    edges,          \* App state: the link list (Edge[]), in array order
    selectedNode,   \* App state: the device object last clicked (a snapshot), or Null
    terminalState,  \* App state: TerminalState {isOpen, nodeId, history, hostname, mode}
    contextInt,     \* TerminalWindow state: current interface name ('' when none)
    contextVlan,    \* TerminalWindow state: current VLAN id (0 when none)
    contextLine,    \* TerminalWindow state: current line name ('' when none)
    isBooting,      \* TerminalWindow state: reload in progress
    historyIdx,     \* TerminalWindow state: position of history recall (-1 when none)
    input,          \* TerminalWindow state: content of the input box
    output,         \* TerminalWindow state: the transcript
    reloadTimer,    \* the 3000 ms timer of reload and the hostname it captured
    pendingTips,    \* how many getCLIFix promises have not settled
    simResult,      \* PacketSimulator: the last findPath result shown
    matchArgs,      \* arguments handed to matchCmd (pure-function check)
    matchResult,    \* what matchCmd returned for them
    toast,          \* App state: the toast shown ({message, type}), or Null
    idCounter       \* App.tsx module variable id, the number getId() uses next

vars == << nodes, edges, selectedNode, terminalState, contextInt, contextVlan, contextLine,
           isBooting, historyIdx, input, output, reloadTimer, pendingTips,
           simResult, matchArgs, matchResult, toast, idCounter >>

-----------------------------------------------------------------------------
\* JavaScript string primitives on character sequences

UpperAlpha == << "A","B","C","D","E","F","G","H","I","J","K","L","M",
                 "N","O","P","Q","R","S","T","U","V","W","X","Y","Z" >>

LowerAlpha == << "a","b","c","d","e","f","g","h","i","j","k","l","m",
                 "n","o","p","q","r","s","t","u","v","w","x","y","z" >>

Digits == << "0","1","2","3","4","5","6","7","8","9" >>

\* \s of a JavaScript regular expression, over the characters the model uses
IsSpace(c) == c = " "

IsDigit(c) == \E i \in 1..Len(Digits) : Digits[i] = c

IsLetter(c) == \E i \in 1..Len(LowerAlpha) : LowerAlpha[i] = c \/ UpperAlpha[i] = c

DigitValue(c) == (CHOOSE i \in 1..Len(Digits) : Digits[i] = c) - 1

LowerChar(c) ==
    IF \E i \in 1..Len(UpperAlpha) : UpperAlpha[i] = c
    THEN LowerAlpha[CHOOSE i \in 1..Len(UpperAlpha) : UpperAlpha[i] = c]
    ELSE c

\* String.prototype.toLowerCase
ToLowerCase(s) == [i \in 1..Len(s) |-> LowerChar(s[i])]

RECURSIVE TrimStart(_)
TrimStart(s) ==
    IF s # << >> /\ IsSpace(Head(s)) THEN TrimStart(Tail(s)) ELSE s

RECURSIVE TrimEnd(_)
TrimEnd(s) ==
    IF s # << >> /\ IsSpace(s[Len(s)]) THEN TrimEnd(SubSeq(s, 1, Len(s) - 1)) ELSE s

\* String.prototype.trim
Trim(s) == TrimEnd(TrimStart(s))

\* String.prototype.split(/\s+/): a maximal run of white space is one separator;
\* '' splits to [''], leading or trailing white space yields an empty first or
\* last piece.
RECURSIVE SplitWsFrom(_, _, _, _, _)
SplitWsFrom(s, i, cur, acc, inWs) ==
    IF i > Len(s) THEN Append(acc, cur)
    ELSE IF IsSpace(s[i])
         THEN IF inWs THEN SplitWsFrom(s, i + 1, cur, acc, TRUE)
                      ELSE SplitWsFrom(s, i + 1, << >>, Append(acc, cur), TRUE)
         ELSE SplitWsFrom(s, i + 1, Append(cur, s[i]), acc, FALSE)

SplitWs(s) == SplitWsFrom(s, 1, << >>, << >>, FALSE)

\* String.prototype.split(c) for a one-character separator: every occurrence
\* separates, empty pieces are kept.
RECURSIVE SplitCharFrom(_, _, _, _, _)
SplitCharFrom(s, c, i, cur, acc) ==
    IF i > Len(s) THEN Append(acc, cur)
    ELSE IF s[i] = c
         THEN SplitCharFrom(s, c, i + 1, << >>, Append(acc, cur))
         ELSE SplitCharFrom(s, c, i + 1, Append(cur, s[i]), acc)

SplitChar(s, c) == SplitCharFrom(s, c, 1, << >>, << >>)

\* Array.prototype.join
RECURSIVE Join(_, _)
Join(parts, sep) ==
    IF parts = << >> THEN << >>
    ELSE IF Len(parts) = 1 THEN parts[1]
    ELSE parts[1] \o sep \o Join(Tail(parts), sep)

\* String.prototype.startsWith
StartsWith(s, prefix) ==
    /\ Len(prefix) <= Len(s)
    /\ SubSeq(s, 1, Len(prefix)) = prefix

\* String.prototype.includes
Includes(s, sub) ==
    \E i \in 0..(Len(s) - Len(sub)) : SubSeq(s, i + 1, i + Len(sub)) = sub

\* String.prototype.substring(k) (k >= 0)
Substring(s, k) == IF k >= Len(s) THEN << >> ELSE SubSeq(s, k + 1, Len(s))

\* tokens[i] of a JavaScript array, 0-based; Undefined when out of range
Undefined == << "<undefined>" >>

At(arr, i) == IF i + 1 <= Len(arr) THEN arr[i + 1] ELSE Undefined

\* JavaScript truthiness of a string-or-undefined value
Truthy(v) == v # Undefined /\ v # << >>

\* Number.prototype.toString for integers
RECURSIVE NatToString(_)
NatToString(n) ==
    IF n < 10 THEN << Digits[n + 1] >>
    ELSE NatToString(n \div 10) \o << Digits[(n % 10) + 1] >>

NumToString(n) == IF n < 0 THEN << "-" >> \o NatToString(0 - n) ELSE NatToString(n)

\* String.prototype.padStart(len, c)
RECURSIVE PadStart(_, _, _)
PadStart(s, len, c) == IF Len(s) >= len THEN s ELSE PadStart(<< c >> \o s, len, c)

\* parseInt(s): optional sign, then the longest run of decimal digits; NaN when
\* there is no digit (also for undefined).  The result is [nan, val].
\* (A 0x prefix selects radix 16 in JavaScript; the model's inputs have none.)
NaN == [nan |-> TRUE, val |-> 0]

RECURSIVE DigitsValue(_, _)
DigitsValue(s, acc) ==
    IF s = << >> \/ ~IsDigit(Head(s)) THEN acc
    ELSE DigitsValue(Tail(s), 10 * acc + DigitValue(Head(s)))

ParseInt(v) ==
    IF v = Undefined THEN NaN
    ELSE LET t == TrimStart(v)
             neg == t # << >> /\ Head(t) = "-"
             signed == t # << >> /\ (Head(t) = "-" \/ Head(t) = "+")
             body == IF signed THEN Tail(t) ELSE t
         IN  IF body = << >> \/ ~IsDigit(Head(body)) THEN NaN
             ELSE [nan |-> FALSE,
                   val |-> IF neg THEN 0 - DigitsValue(body, 0) ELSE DigitsValue(body, 0)]

-----------------------------------------------------------------------------
\* TerminalWindow: matchCmd

\* A plausible slip of matchCmd: the prefix test the wrong way round
\* (the typed token must start with the canonical one).
matchCmdReversed(inputStr, target) ==
    IF inputStr = << >> THEN FALSE
    ELSE LET inputParts == SplitWs(ToLowerCase(Trim(inputStr)))
             targetParts == SplitWs(ToLowerCase(target))
         IN  \A i \in 0..(Len(targetParts) - 1) :
                 /\ Truthy(At(inputParts, i))
                 /\ StartsWith(At(inputParts, i), At(targetParts, i))

\* The loop of matchCmd over targetParts: false at the first position whose
\* typed token is missing or is not a prefix.
matchParts(inputParts, targetParts) ==
    \A i \in 0..(Len(targetParts) - 1) :
        /\ Truthy(At(inputParts, i))
        /\ StartsWith(At(targetParts, i), At(inputParts, i))

\* matchCmd(inputStr, target)
matchCmd(inputStr, target) ==
    IF inputStr = << >> THEN FALSE
    ELSE matchParts(SplitWs(ToLowerCase(Trim(inputStr))), SplitWs(ToLowerCase(target)))

-----------------------------------------------------------------------------
\* types.ts: DeviceType, NetworkNodeData

ROUTER == "ROUTER"
SWITCH_L2 == "SWITCH_L2"
SWITCH_L3 == "SWITCH_L3"
FIREWALL == "FIREWALL"
PC == "PC"
LAPTOP == "LAPTOP"
SERVER == "SERVER"
PRINTER == "PRINTER"
INTERNET == "INTERNET"

\* A NetworkNode: id and the fields of data the interpreter and the engine use.
\* Optional fields that are absent hold Undefined (ip, hostname), NoVlanDb,
\* NoInterfaces, 0 (assignedVlan) or FALSE (ipRouting).
NoVlanDb == [defined |-> FALSE, entries |-> << >>]

NoInterfaces == [defined |-> FALSE, entries |-> << >>]

Device(id, label, type, status, ip) ==
    [id |-> id, label |-> label, type |-> type, status |-> status, ip |-> ip,
     hostname |-> Undefined, ipRouting |-> FALSE, vlanDb |-> NoVlanDb,
     interfaces |-> NoInterfaces, assignedVlan |-> 0]

\* An Edge of reactflow: id, source, target
Link(id, source, target) == [id |-> id, source |-> source, target |-> target]

\* nodes.find(n => n.id === id): the first match, or NoNode (undefined)
NoNode == [id |-> "<undefined>"]

FindNode(nds, id) ==
    IF \E i \in 1..Len(nds) : nds[i].id = id
    THEN nds[CHOOSE i \in 1..Len(nds) :
                 nds[i].id = id /\ \A j \in 1..(i - 1) : nds[j].id # id]
    ELSE NoNode

-----------------------------------------------------------------------------
\* services/rules.ts: the reachability engine

\* A slip of isValidIP: a group count of three is accepted too.
isValidIPLoose(ip) ==
    /\ Truthy(ip)
    /\ LET groups == SplitChar(ip, ".")
       IN  /\ Len(groups) \in {3, 4}
           /\ \A g \in 1..Len(groups) :
                  /\ Len(groups[g]) \in 1..3
                  /\ \A k \in 1..Len(groups[g]) : IsDigit(groups[g][k])

\* isValidIP: ip && /^(?:[0-9]{1,3}\.){3}[0-9]{1,3}$/.test(ip).  A digit group
\* holds no dot, so the expression matches exactly the texts that split on '.'
\* into four groups of one to three digits.
isValidIP(ip) ==
    /\ Truthy(ip)
    /\ LET groups == SplitChar(ip, ".")
       IN  /\ Len(groups) = 4
           /\ \A g \in 1..4 :
                  /\ Len(groups[g]) \in 1..3
                  /\ \A k \in 1..Len(groups[g]) : IsDigit(groups[g][k])

\* getSubnet: ip.split('.').slice(0, 3).join('.')
getSubnet(ip) ==
    LET groups == SplitChar(ip, ".")
    IN  Join(SubSeq(groups, 1, IF Len(groups) < 3 THEN Len(groups) ELSE 3), << "." >>)

\* adjacencyList.get(id) || []: each edge pushes its target onto the list of its
\* source and then its source onto the list of its target, in edge order.
RECURSIVE Neighbors(_, _)
Neighbors(eds, id) ==
    IF eds = << >> THEN << >>
    ELSE LET e == Head(eds)
         IN  (IF e.source = id THEN << e.target >> ELSE << >>)
             \o (IF e.target = id THEN << e.source >> ELSE << >>)
             \o Neighbors(Tail(eds), id)

\* A slip of the for-loop: a break after the first unvisited neighbour, so that
\* only one neighbour of each dequeued entry is enqueued.
RECURSIVE VisitFirstNeighborOnly(_, _, _, _)
VisitFirstNeighborOnly(nbs, current, queue, visited) ==
    IF nbs = << >> THEN [queue |-> queue, visited |-> visited]
    ELSE IF Head(nbs) \in visited
         THEN VisitFirstNeighborOnly(Tail(nbs), current, queue, visited)
         ELSE [queue |-> Append(queue, [id |-> Head(nbs),
                                        path |-> Append(current.path, Head(nbs))]),
               visited |-> visited \cup {Head(nbs)}]

\* The for-loop over the neighbours of the dequeued entry: each unvisited
\* neighbour is marked visited and enqueued with the extended path.
RECURSIVE VisitNeighbors(_, _, _, _)
VisitNeighbors(nbs, current, queue, visited) ==
    IF nbs = << >> THEN [queue |-> queue, visited |-> visited]
    ELSE IF Head(nbs) \in visited
         THEN VisitNeighbors(Tail(nbs), current, queue, visited)
         ELSE VisitNeighbors(Tail(nbs), current,
                  Append(queue, [id |-> Head(nbs),
                                 path |-> Append(current.path, Head(nbs))]),
                  visited \cup {Head(nbs)})

\* while (queue.length > 0): shift the head; stop when it is the target
RECURSIVE BfsLoop(_, _, _, _)
BfsLoop(eds, queue, visited, endNodeId) ==
    IF queue = << >> THEN [pathFound |-> FALSE, physicalPath |-> << >>]
    ELSE LET current == Head(queue)
         IN  IF current.id = endNodeId
             THEN [pathFound |-> TRUE, physicalPath |-> current.path]
             ELSE LET next == VisitNeighbors(Neighbors(eds, current.id), current,
                                             Tail(queue), visited)
                  IN  BfsLoop(eds, next.queue, next.visited, endNodeId)

\* The message of a PacketSimulationResult: the fixed wording (kind) and the
\* values interpolated into it.
Message(kind, a, b, n) == [kind |-> kind, a |-> a, b |-> b, n |-> n]

MsgNotFound == "Device not found."
MsgSourceIp == "Configuration Error: Source device is missing a valid IP address."
MsgTargetIp == "Configuration Error: Destination device is missing a valid IP address."
MsgNoCable == "Physical Link Error: No cable connection exists between these devices."
MsgDown == "Link Failure: Packet dropped (Device is DOWN)."
MsgRouting == "Routing Error: Devices are in different subnets but no Router/Gateway was found in the path."
MsgSuccess == "Success! Packet delivered."

Result(success, path, hops, message) ==
    [success |-> success, path |-> path, hops |-> hops, message |-> message]

\* physicalPath.find(id => nodes.find(n => n.id === id)?.data.status === 'down')
IsDownId(nds, id) ==
    LET node == FindNode(nds, id) IN node # NoNode /\ node.status = "down"

BrokenIndex(nds, path) ==
    IF \E i \in 1..Len(path) : IsDownId(nds, path[i])
    THEN CHOOSE i \in 1..Len(path) :
             IsDownId(nds, path[i]) /\ \A j \in 1..(i - 1) : ~IsDownId(nds, path[j])
    ELSE 0

\* A slip of the routing check: a firewall not counted as a gateway.
IsGatewayNoFirewall(nds, id) ==
    LET node == FindNode(nds, id)
    IN  node # NoNode /\ node.type \in {ROUTER, SWITCH_L3}

\* physicalPath.some(id => type is ROUTER, SWITCH_L3 or FIREWALL)
IsGateway(nds, id) ==
    LET node == FindNode(nds, id)
    IN  node # NoNode /\ node.type \in {ROUTER, SWITCH_L3, FIREWALL}

\* bfs of findPath: the queue starts with the source, already visited
Bfs(eds, startNodeId, endNodeId) ==
    BfsLoop(eds, << [id |-> startNodeId, path |-> << startNodeId >>] >>,
            {startNodeId}, endNodeId)

\* A slip of findPath: the routing requirement tested before the DOWN check.
findPathRoutingFirst(nds, eds, startNodeId, endNodeId) ==
    LET startNode == FindNode(nds, startNodeId)
        endNode == FindNode(nds, endNodeId)
    IN  IF startNode = NoNode \/ endNode = NoNode
        THEN Result(FALSE, << >>, 0, Message(MsgNotFound, << >>, << >>, 0))
        ELSE IF ~isValidIP(startNode.ip)
        THEN Result(FALSE, << >>, 0, Message(MsgSourceIp, startNode.label, << >>, 0))
        ELSE IF ~isValidIP(endNode.ip)
        THEN Result(FALSE, << >>, 0, Message(MsgTargetIp, endNode.label, << >>, 0))
        ELSE
        LET sourceSubnet == getSubnet(startNode.ip)
            targetSubnet == getSubnet(endNode.ip)
            bfs == Bfs(eds, startNodeId, endNodeId)
            physicalPath == bfs.physicalPath
            broken == BrokenIndex(nds, physicalPath)
        IN  IF ~bfs.pathFound
            THEN Result(FALSE, << >>, 0, Message(MsgNoCable, << >>, << >>, 0))
            ELSE IF sourceSubnet # targetSubnet
                    /\ ~\E i \in 1..Len(physicalPath) : IsGateway(nds, physicalPath[i])
            THEN Result(FALSE, physicalPath, 0,
                        Message(MsgRouting, sourceSubnet, targetSubnet, 0))
            ELSE IF broken # 0
            THEN Result(FALSE, physicalPath, 0,
                        Message(MsgDown, FindNode(nds, physicalPath[broken]).label, << >>, 0))
            ELSE Result(TRUE, physicalPath, Len(physicalPath) - 1,
                        Message(MsgSuccess, startNode.ip, endNode.ip, Len(physicalPath) - 1))

\* findPath(nodes, edges, startNodeId, endNodeId)
findPath(nds, eds, startNodeId, endNodeId) ==
    LET startNode == FindNode(nds, startNodeId)
        endNode == FindNode(nds, endNodeId)
    IN  IF startNode = NoNode \/ endNode = NoNode
        THEN Result(FALSE, << >>, 0, Message(MsgNotFound, << >>, << >>, 0))
        ELSE IF ~isValidIP(startNode.ip)
        THEN Result(FALSE, << >>, 0, Message(MsgSourceIp, startNode.label, << >>, 0))
        ELSE IF ~isValidIP(endNode.ip)
        THEN Result(FALSE, << >>, 0, Message(MsgTargetIp, endNode.label, << >>, 0))
        ELSE
        LET sourceSubnet == getSubnet(startNode.ip)
            targetSubnet == getSubnet(endNode.ip)
            bfs == Bfs(eds, startNodeId, endNodeId)
            physicalPath == bfs.physicalPath
            broken == BrokenIndex(nds, physicalPath)
        IN  IF ~bfs.pathFound
            THEN Result(FALSE, << >>, 0, Message(MsgNoCable, << >>, << >>, 0))
            ELSE IF broken # 0
            THEN Result(FALSE, physicalPath, 0,
                        Message(MsgDown, FindNode(nds, physicalPath[broken]).label, << >>, 0))
            ELSE IF sourceSubnet # targetSubnet
                    /\ ~\E i \in 1..Len(physicalPath) : IsGateway(nds, physicalPath[i])
            THEN Result(FALSE, physicalPath, 0,
                        Message(MsgRouting, sourceSubnet, targetSubnet, 0))
            ELSE Result(TRUE, physicalPath, Len(physicalPath) - 1,
                        Message(MsgSuccess, startNode.ip, endNode.ip, Len(physicalPath) - 1))

-----------------------------------------------------------------------------
\* Texts used by the scenarios

Ip_192_168_1_1 == << "1","9","2",".","1","6","8",".","1",".","1" >>
Ip_192_168_1_2 == << "1","9","2",".","1","6","8",".","1",".","2" >>
Ip_192_168_1_10 == << "1","9","2",".","1","6","8",".","1",".","1","0" >>
Ip_192_168_1_11 == << "1","9","2",".","1","6","8",".","1",".","1","1" >>
Ip_10_0_0_5 == << "1","0",".","0",".","0",".","5" >>
Ip_10_0_1_5 == << "1","0",".","0",".","1",".","5" >>
Ip_10_0_1_999 == << "1","0",".","0",".","1",".","9","9","9" >>
Ip_10_0_1 == << "1","0",".","0",".","1" >>
Subnet_10_0_0 == << "1","0",".","0",".","0" >>
Subnet_10_0_1 == << "1","0",".","0",".","1" >>

Ip_10_0_1_5555 == << "1","0",".","0",".","1",".","5","5","5","5" >>

-----------------------------------------------------------------------------
\* App and TerminalWindow: the state after construction

Null == "<null>"

UserExec == ">"
PrivilegedExec == "#"
GlobalConfig == "(config)#"
InterfaceConfig == "(config-if)#"
VlanConfig == "(config-vlan)#"
LineConfig == "(config-line)#"

\* useState<TerminalState>({isOpen: false, nodeId: null, history: [],
\*                          hostname: 'Router', mode: '>'})
InitialTerminalState ==
    [isOpen |-> FALSE, nodeId |-> Null, history |-> << >>,
     hostname |-> << "R","o","u","t","e","r" >>, mode |-> UserExec]

NoResult == Result(FALSE, << >>, 0, Message("", << >>, << >>, 0))

NoSim == [ran |-> FALSE, source |-> Null, target |-> Null, res |-> NoResult]

NoMatch == [ran |-> FALSE, value |-> FALSE]

NoMatchArgs == [inputStr |-> << >>, target |-> << >>]

\* useState(null) of the toast: no toast is shown
NoToast == [message |-> Null, type |-> Null]

\* useState<NetworkNode | null>(null)
NoSelection == [id |-> Null]

\* No reload timer is running
NoTimer == [pending |-> FALSE, hostname |-> << >>]

\* TerminalWindow's useState defaults and the closed terminal of App
InitTerminal ==
    /\ terminalState = InitialTerminalState
    /\ contextInt = << >>
    /\ contextVlan = 0
    /\ contextLine = << >>
    /\ selectedNode = NoSelection
    /\ isBooting = FALSE
    /\ historyIdx = -1
    /\ input = << >>
    /\ output = << >>
    /\ reloadTimer = NoTimer
    /\ pendingTips = 0

TerminalVars == << selectedNode, terminalState, contextInt, contextVlan, contextLine,
                   isBooting, historyIdx, input, output, reloadTimer, pendingTips >>

-----------------------------------------------------------------------------
\* The reachability engine applied to bounded topologies

\* Longest link list of the topologies whose links are drawn freely
MaxLinks == 3

DeviceIds == << "A", "B", "C", "D" >>

\* An id no device carries (a device selected and then deleted)
GhostId == "Z"

QueryIds == {DeviceIds[i] : i \in 1..Len(DeviceIds)} \cup {GhostId}

\* The devices a simulation starts from (an end device of the fixed link
\* lists, in both roles, and the deleted one)
SourceIds == {"C", "D", GhostId}

\* The endpoints a link may join: every pair of distinct devices, and a link
\* from C to itself; which end is the source alternates with the pair
\* (findPath reads source and target symmetrically).
LinkEnds ==
    {IF (p[1] + p[2]) % 2 = 1 THEN << DeviceIds[p[1]], DeviceIds[p[2]] >>
                              ELSE << DeviceIds[p[2]], DeviceIds[p[1]] >> :
         p \in {q \in (1..Len(DeviceIds)) \X (1..Len(DeviceIds)) : q[1] < q[2]}}
    \cup {<< "C", "C" >>}

\* Edge ids as reactflow numbers them here: e1, e2, ... by position
EdgeId(k) == << "e" >> \o NatToString(k)

MakeLinks(ends) == [k \in 1..Len(ends) |-> Link(EdgeId(k), ends[k][1], ends[k][2])]

LinkLists == UNION {[1..n -> LinkEnds] : n \in 0..MaxLinks}

LabelOf(id) == << id >>

\* The spec's scenario devices: A Router, B SwitchL2, C and D PCs at
\* 192.168.1.10 and 192.168.1.11
ScenarioNodes ==
    << Device("A", LabelOf("A"), ROUTER, "up", Ip_192_168_1_1),
       Device("B", LabelOf("B"), SWITCH_L2, "up", Ip_192_168_1_2),
       Device("C", LabelOf("C"), PC, "up", Ip_192_168_1_10),
       Device("D", LabelOf("D"), PC, "up", Ip_192_168_1_11) >>

\* Link lists of the topologies whose device attributes are drawn freely:
\* the scenario star A-B, B-C, B-D; the chain C-A-B-D; the chain C-B-D with a
\* second, longer way round through A; C and D apart.
FixedLinkEnds ==
    { << << "A", "B" >>, << "B", "C" >>, << "B", "D" >> >>,
      << << "C", "A" >>, << "A", "B" >>, << "D", "B" >> >>,
      << << "C", "A" >>, << "A", "D" >>, << "C", "B" >>, << "B", "D" >> >>,
      << << "C", "A" >>, << "B", "D" >> >> }

AttrNodes(tA, tB, sB, sC, ipC, ipD) ==
    << Device("A", LabelOf("A"), tA, "up", Ip_192_168_1_1),
       Device("B", LabelOf("B"), tB, sB, Ip_192_168_1_2),
       Device("C", LabelOf("C"), PC, sC, ipC),
       Device("D", LabelOf("D"), PC, "up", ipD) >>

InitScenarioLinks ==
    /\ nodes = ScenarioNodes
    /\ \E ends \in LinkLists : edges = MakeLinks(ends)

InitAttributes ==
    /\ \E tA \in {ROUTER, SWITCH_L2}, tB \in {SWITCH_L2, SWITCH_L3, FIREWALL},
          sB \in {"up", "down", "booting"}, sC \in {"up", "down"},
          ipC \in {Ip_192_168_1_10, Ip_10_0_1_5, Ip_10_0_1, Undefined},
          ipD \in {Ip_192_168_1_11, Ip_10_0_0_5, Ip_10_0_1_999, Ip_10_0_1_5555} :
          nodes = AttrNodes(tA, tB, sB, sC, ipC, ipD)
    /\ \E ends \in FixedLinkEnds : edges = MakeLinks(ends)

InitPath ==
    /\ InitScenarioLinks \/ InitAttributes
    /\ InitTerminal
    /\ simResult = NoSim
    /\ matchArgs = NoMatchArgs
    /\ matchResult = NoMatch
    /\ toast = NoToast
    /\ idCounter = 0

\* PacketSimulator.handleSimulate: nothing without a source and a target; else
\* the result of findPath on the device and link lists of the click (the 300 ms
\* timer runs the closure of that render).
handleSimulate(source, target) ==
    /\ source # Null /\ target # Null
    /\ simResult' = [ran |-> TRUE, source |-> source, target |-> target,
                     res |-> findPath(nodes, edges, source, target)]
    /\ UNCHANGED << nodes, edges, matchArgs, matchResult, toast, idCounter >>
    /\ UNCHANGED TerminalVars

NextPath == \E source \in SourceIds, target \in QueryIds : handleSimulate(source, target)

SpecPath == InitPath /\ [][NextPath]_vars

-----------------------------------------------------------------------------
\* What the claims about the engine are stated with (independent of findPath)

\* Two devices are the two ends of some link, in either direction
Joined(eds, x, y) ==
    \E i \in 1..Len(eds) :
        \/ eds[i].source = x /\ eds[i].target = y
        \/ eds[i].source = y /\ eds[i].target = x

EndsOf(eds) == {eds[i].source : i \in 1..Len(eds)} \cup {eds[i].target : i \in 1..Len(eds)}

\* The least number of links of a chain of links from the devices reached so
\* far to the target, counted from k; -1 when no chain exists
RECURSIVE LeastLinksFrom(_, _, _, _)
LeastLinksFrom(eds, reached, k, target) ==
    IF target \in reached THEN k
    ELSE LET next == reached \cup {y \in EndsOf(eds) : \E x \in reached : Joined(eds, x, y)}
         IN  IF next = reached THEN -1
             ELSE LeastLinksFrom(eds, next, k + 1, target)

LeastLinks(eds, source, target) == LeastLinksFrom(eds, {source}, 0, target)

InDeviceList(id) == \E i \in 1..Len(nodes) : nodes[i].id = id

DeviceOf(id) == nodes[CHOOSE i \in 1..Len(nodes) : nodes[i].id = id]

\* Four dot-separated groups of one to three digits, by the places of the dots
DotPlaces(ip) == {i \in 1..Len(ip) : ip[i] = "."}

IsDottedQuad(ip) ==
    /\ ip # Undefined
    /\ Cardinality(DotPlaces(ip)) = 3
    /\ \A i \in 1..Len(ip) : ip[i] = "." \/ IsDigit(ip[i])
    /\ \A i \in DotPlaces(ip) \cup {0} :
           LET nextDot == IF \E j \in DotPlaces(ip) : j > i
                          THEN CHOOSE j \in DotPlaces(ip) :
                                   j > i /\ \A m \in DotPlaces(ip) : m > i => m >= j
                          ELSE Len(ip) + 1
           IN  nextDot - i - 1 \in 1..3

\* The text before the third dot of a dotted quad
FirstThreeOctets(ip) ==
    LET third == CHOOSE j \in DotPlaces(ip) : \A m \in DotPlaces(ip) : m <= j
    IN  SubSeq(ip, 1, third - 1)

Ran == simResult.ran
Src == simResult.source
Tgt == simResult.target
Res == simResult.res

\* Both ends exist with valid addresses and some chain of links joins them
Reachable ==
    /\ Ran
    /\ InDeviceList(Src) /\ InDeviceList(Tgt)
    /\ IsDottedQuad(DeviceOf(Src).ip) /\ IsDottedQuad(DeviceOf(Tgt).ip)
    /\ LeastLinks(edges, Src, Tgt) >= 0

\* The path the search discovers for the simulated pair
Discovered == Bfs(edges, Src, Tgt).physicalPath

DownOn(path) == {i \in 1..Len(path) : InDeviceList(path[i]) /\ DeviceOf(path[i]).status = "down"}

GatewayOn(path) ==
    \E i \in 1..Len(path) :
        InDeviceList(path[i]) /\ DeviceOf(path[i]).type \in {ROUTER, SWITCH_L3, FIREWALL}

IsPathOfLinks(path, source, target) ==
    /\ Len(path) >= 1
    /\ path[1] = source
    /\ path[Len(path)] = target
    /\ \A i \in 1..(Len(path) - 1) : Joined(edges, path[i], path[i + 1])

LinkPairs == {{edges[i].source, edges[i].target} : i \in 1..Len(edges)}

\* C2: whenever findPath succeeds, the returned path starts at the source, ends
\* at the target, joins consecutive devices by links, and hops = number of
\* devices - 1 = the least number of links of any path between the two; with
\* the links A-B, B-C, B-D, C and D PCs at 192.168.1.10 and 192.168.1.11 and no
\* device down, findPath(C, D) succeeds with hops 2 and path [C, B, D].
C2_MinimumHops ==
    /\ (Ran /\ Res.success) =>
           /\ IsPathOfLinks(Res.path, Src, Tgt)
           /\ Res.hops = Len(Res.path) - 1
           /\ Res.hops = LeastLinks(edges, Src, Tgt)
    /\ ( /\ Ran /\ Src = "C" /\ Tgt = "D"
         /\ LinkPairs = {{"A", "B"}, {"B", "C"}, {"B", "D"}}
         /\ DeviceOf("C").type = PC /\ DeviceOf("C").ip = Ip_192_168_1_10
         /\ DeviceOf("D").type = PC /\ DeviceOf("D").ip = Ip_192_168_1_11
         /\ \A i \in 1..Len(nodes) : nodes[i].status # "down" )
       => /\ Res.success
          /\ Res.hops = 2
          /\ Res.path = << "C", "B", "D" >>

\* C2 witness: a success over two links although a longer way round exists
C2_Witness ==
    /\ Ran /\ Res.success /\ Res.hops = 2
    /\ Src = "C" /\ Tgt = "D"
    /\ LinkPairs = {{"A", "C"}, {"A", "D"}, {"B", "C"}, {"B", "D"}}

C4_DownShortCircuit ==
    Reachable =>
        /\ DownOn(Discovered) # {} =>
               LET first == CHOOSE i \in DownOn(Discovered) :
                                \A j \in DownOn(Discovered) : i <= j
               IN  /\ ~Res.success
                   /\ Res.hops = 0
                   /\ Res.message =
                          Message(MsgDown, DeviceOf(Discovered[first]).label, << >>, 0)
        /\ DownOn(Discovered) = {} => Res.message.kind # MsgDown

\* C4 witness: two devices down on the path, subnets differ, no gateway
C4_Witness ==
    /\ Reachable
    /\ Cardinality(DownOn(Discovered)) = 2
    /\ FirstThreeOctets(DeviceOf(Src).ip) # FirstThreeOctets(DeviceOf(Tgt).ip)
    /\ ~GatewayOn(Discovered)
    /\ Res.message.kind = MsgDown

\* C5: an id missing from the device list gives 'Device not found.'; else a
\* source address that is missing or not four groups of 1-3 digits gives the
\* configuration error naming the source; else the same for the target; else no
\* chain of links gives the physical-connectivity error; in all four success is
\* false, the path empty and hops 0 (the address errors also when unconnected).
C5_EarlyFailures ==
    Ran =>
        IF ~InDeviceList(Src) \/ ~InDeviceList(Tgt)
        THEN Res = Result(FALSE, << >>, 0, Message(MsgNotFound, << >>, << >>, 0))
        ELSE IF ~IsDottedQuad(DeviceOf(Src).ip)
        THEN Res = Result(FALSE, << >>, 0,
                          Message(MsgSourceIp, DeviceOf(Src).label, << >>, 0))
        ELSE IF ~IsDottedQuad(DeviceOf(Tgt).ip)
        THEN Res = Result(FALSE, << >>, 0,
                          Message(MsgTargetIp, DeviceOf(Tgt).label, << >>, 0))
        ELSE IF LeastLinks(edges, Src, Tgt) < 0
        THEN Res = Result(FALSE, << >>, 0, Message(MsgNoCable, << >>, << >>, 0))
        ELSE Res.message.kind \notin {MsgNotFound, MsgSourceIp, MsgTargetIp, MsgNoCable}

\* C5 witness: an address of three groups at the source, reported although no
\* chain of links joins the pair
C5_Witness ==
    /\ Ran /\ InDeviceList(Src) /\ InDeviceList(Tgt)
    /\ DeviceOf(Src).ip = Ip_10_0_1
    /\ LeastLinks(edges, Src, Tgt) < 0
    /\ Res.message.kind = MsgSourceIp

-----------------------------------------------------------------------------
\* matchCmd applied to bounded typed lines

\* Longest typed line handed to matchCmd
MaxTyped == 4

MatchAlphabet == {"s", "h", "o", "n", "r", "S", " "}

TypedLines == UNION {[1..n -> MatchAlphabet] : n \in 0..MaxTyped}

Cmd_show_run == << "s","h","o","w"," ","r","u","n" >>
Cmd_shutdown == << "s","h","u","t","d","o","w","n" >>
Cmd_no_shutdown == << "n","o"," ","s","h","u","t","d","o","w","n" >>

\* Canonical commands of handleCommand whose letters the alphabet can type
MatchTargets == {Cmd_show_run, Cmd_shutdown, Cmd_no_shutdown}

\* INITIAL_NODES of constants.ts, as App constructs them
InitialNodes ==
    << Device("isp-1", << "I","S","P"," ","P","r","i","m","a","r","y" >>, INTERNET, "up", << "8",".","8",".","8",".","8" >>),
       Device("router-1", << "E","d","g","e"," ","R","o","u","t","e","r" >>, ROUTER, "up", Ip_192_168_1_1) >>

InitMatch ==
    /\ nodes = InitialNodes
    /\ edges = << >>
    /\ InitTerminal
    /\ simResult = NoSim
    /\ \E typed \in TypedLines, target \in MatchTargets :
           matchArgs = [inputStr |-> typed, target |-> target]
    /\ matchResult = NoMatch
    /\ toast = NoToast
    /\ idCounter = 0

ApplyMatchCmd ==
    /\ matchResult' = [ran |-> TRUE,
                       value |-> matchCmd(matchArgs.inputStr, matchArgs.target)]
    /\ UNCHANGED << nodes, edges, simResult, matchArgs, toast, idCounter >>
    /\ UNCHANGED TerminalVars

NextMatch == ApplyMatchCmd

SpecMatch == InitMatch /\ [][NextMatch]_vars

\* The words of a line: its maximal runs of characters that are not white space
WordStarts(s) == {i \in 1..Len(s) : ~IsSpace(s[i]) /\ (i = 1 \/ IsSpace(s[i - 1]))}

NumWords(s) == Cardinality(WordStarts(s))

Word(s, k) ==
    LET start == CHOOSE i \in WordStarts(s) :
                     Cardinality({j \in WordStarts(s) : j < i}) = k - 1
        end == CHOOSE j \in start..Len(s) :
                   /\ \A m \in start..j : ~IsSpace(s[m])
                   /\ (j = Len(s) \/ IsSpace(s[j + 1]))
    IN  SubSeq(s, start, end)

SameLetter(a, b) ==
    \/ a = b
    \/ \E i \in 1..Len(UpperAlpha) : {a, b} = {UpperAlpha[i], LowerAlpha[i]}

IsPrefixAnyCase(p, w) ==
    /\ Len(p) <= Len(w)
    /\ \A k \in 1..Len(p) : SameLetter(p[k], w[k])

\* C8: matchCmd(typed, canonical) is true exactly when typed is not empty and
\* every word position of the canonical command has a typed word of which the
\* canonical word starts, letter case ignored; typed words beyond the canonical
\* ones are ignored.
C8_MatchRule ==
    matchResult.ran =>
        LET typed == matchArgs.inputStr
            canonical == matchArgs.target
        IN  matchResult.value <=>
                /\ typed # << >>
                /\ \A i \in 1..NumWords(canonical) :
                       /\ i <= NumWords(typed)
                       /\ IsPrefixAnyCase(Word(typed, i), Word(canonical, i))

\* C8 witness: an abbreviation in upper case with a trailing argument matches
C8_Witness ==
    /\ matchResult.ran /\ matchResult.value
    /\ matchArgs = [inputStr |-> << "S", "h", " ", "n" >>, target |-> Cmd_shutdown]

-----------------------------------------------------------------------------
\* TerminalWindow: texts, ordering of texts, and the configuration records

Str_GigabitEthernet == << "G","i","g","a","b","i","t","E","t","h","e","r","n","e","t" >>
Str_FastEthernet == << "F","a","s","t","E","t","h","e","r","n","e","t" >>
Str_Gi == << "G","i" >>
Str_Fa == << "F","a" >>
Str_default == << "d","e","f","a","u","l","t" >>
Str_VLAN == << "V","L","A","N" >>
Str_unassigned == << "u","n","a","s","s","i","g","n","e","d" >>
Str_AllVlans == << "1","-","4","0","9","4" >>

\* UTF-16 code unit order of the characters the model uses
CodeOrder == << " ", "+", ",", "-", ".", "/" >> \o Digits \o << "?" >> \o UpperAlpha \o << "_" >> \o LowerAlpha

CharCode(c) == CHOOSE i \in 1..Len(CodeOrder) : CodeOrder[i] = c

\* a < b in the order of Array.prototype.sort() on strings, which for the
\* lower-case letters and digits of the edge ids is also that of localeCompare
RECURSIVE LessStr(_, _)
LessStr(a, b) ==
    IF b = << >> THEN FALSE
    ELSE IF a = << >> THEN TRUE
    ELSE IF Head(a) = Head(b) THEN LessStr(Tail(a), Tail(b))
    ELSE CharCode(Head(a)) < CharCode(Head(b))

\* A line of text of the transcript: its fixed wording t and what is
\* interpolated into it (a mode m, texts a and b, a number n)
TextLine(t, m, a, b, n) == [t |-> t, m |-> m, a |-> a, b |-> b, n |-> n]

Fixed(t) == << TextLine(t, "", << >>, << >>, 0) >>

EmptyLine == TextLine("", "", << >>, << >>, 0)

\* ensureInterface's default record
NewInterface(ifName) ==
    [name |-> ifName, shutdown |-> FALSE, switchportMode |-> "access",
     accessVlan |-> 1, trunkAllowedVlans |-> Str_AllVlans,
     ip |-> Undefined, mask |-> Undefined, description |-> Undefined]

\* Property keys that JavaScript enumerates first, in numeric order: the
\* canonical array indices (digits only, no leading zero)
IsIndexKey(name) ==
    /\ name # << >>
    /\ \A i \in 1..Len(name) : IsDigit(name[i])
    /\ (Len(name) = 1 \/ name[1] # "0")

HasInterface(ifs, ifName) ==
    ifs.defined /\ \E i \in 1..Len(ifs.entries) : ifs.entries[i].name = ifName

InterfaceOf(ifs, ifName) ==
    ifs.entries[CHOOSE i \in 1..Len(ifs.entries) : ifs.entries[i].name = ifName]

\* interfaces[ifName] = record for a new key, kept in enumeration order
AddInterface(entries, rec) ==
    IF IsIndexKey(rec.name)
    THEN LET before == SelectSeq(entries, LAMBDA e :
                           IsIndexKey(e.name) /\ DigitsValue(e.name, 0) < DigitsValue(rec.name, 0))
             after == SelectSeq(entries, LAMBDA e :
                           ~(IsIndexKey(e.name) /\ DigitsValue(e.name, 0) < DigitsValue(rec.name, 0)))
         IN  before \o << rec >> \o after
    ELSE Append(entries, rec)

\* A slip of ensureInterface: the record is written whether or not it exists.
ensureInterfaceReset(node, ifName) ==
    LET entries == IF node.interfaces.defined THEN node.interfaces.entries ELSE << >>
    IN  [node EXCEPT !.interfaces =
             [defined |-> TRUE,
              entries |-> IF HasInterface(node.interfaces, ifName)
                          THEN [k \in 1..Len(entries) |->
                                   IF entries[k].name = ifName THEN NewInterface(ifName)
                                   ELSE entries[k]]
                          ELSE AddInterface(entries, NewInterface(ifName))]]

\* ensureInterface(node, ifName)
ensureInterface(node, ifName) ==
    LET entries == IF node.interfaces.defined THEN node.interfaces.entries ELSE << >>
    IN  [node EXCEPT !.interfaces =
             [defined |-> TRUE,
              entries |-> IF HasInterface(node.interfaces, ifName)
                          THEN entries
                          ELSE AddInterface(entries, NewInterface(ifName))]]

\* The VLAN database: entries [vid, name] in the order Object.entries yields
\* them (ids >= 0 ascending, then negative ids in insertion order)
HasVlan(entries, vid) == \E i \in 1..Len(entries) : entries[i].vid = vid

VlanName(entries, vid) ==
    entries[CHOOSE i \in 1..Len(entries) : entries[i].vid = vid].name

PutVlan(entries, vid, name) ==
    IF HasVlan(entries, vid)
    THEN [i \in 1..Len(entries) |->
             IF entries[i].vid = vid THEN [vid |-> vid, name |-> name] ELSE entries[i]]
    ELSE IF vid >= 0
    THEN SelectSeq(entries, LAMBDA e : e.vid >= 0 /\ e.vid < vid)
         \o << [vid |-> vid, name |-> name] >>
         \o SelectSeq(entries, LAMBDA e : ~(e.vid >= 0 /\ e.vid < vid))
    ELSE Append(entries, [vid |-> vid, name |-> name])

\* {1: 'default'}
DefaultVlanEntries == << [vid |-> 1, name |-> Str_default] >>

\* `VLAN${vid.toString().padStart(4, '0')}`
DefaultVlanName(vid) == Str_VLAN \o PadStart(NumToString(vid), 4, "0")

\* A slip of the vlan command: the default name written over an existing one.
withVlanOverwrite(vlanDb, vid) ==
    LET entries == IF vlanDb.defined THEN vlanDb.entries ELSE DefaultVlanEntries
    IN  [defined |-> TRUE, entries |-> PutVlan(entries, vid, DefaultVlanName(vid))]

\* const vlanDb = n.data.vlanDb || {1: 'default'};
\* if (!vlanDb[vid]) vlanDb[vid] = `VLAN${...}`;
withVlan(vlanDb, vid) ==
    LET entries == IF vlanDb.defined THEN vlanDb.entries ELSE DefaultVlanEntries
    IN  [defined |-> TRUE,
         entries |-> IF HasVlan(entries, vid) THEN entries
                     ELSE PutVlan(entries, vid, DefaultVlanName(vid))]

\* Array.prototype.sort on records [k, v], by their text key k (stable)
RECURSIVE InsertKeyed(_, _)
InsertKeyed(sorted, x) ==
    IF sorted = << >> THEN << x >>
    ELSE IF LessStr(x.k, Head(sorted).k) THEN << x >> \o sorted
    ELSE << Head(sorted) >> \o InsertKeyed(Tail(sorted), x)

RECURSIVE SortKeyed(_)
SortKeyed(seq) ==
    IF seq = << >> THEN << >>
    ELSE InsertKeyed(SortKeyed(SubSeq(seq, 1, Len(seq) - 1)), seq[Len(seq)])

\* A slip of getSortedEdges: the incident edges in the order of the edge list.
getEdgesUnsorted(eds, nodeId) ==
    SelectSeq(eds, LAMBDA e : e.source = nodeId \/ e.target = nodeId)

\* getSortedEdges(nodeId): the incident edges, sorted by id
getSortedEdges(eds, nodeId) ==
    LET incident == SelectSeq(eds, LAMBDA e : e.source = nodeId \/ e.target = nodeId)
        sorted == SortKeyed([i \in 1..Len(incident) |-> [k |-> incident[i].id, v |-> incident[i]]])
    IN  [i \in 1..Len(sorted) |-> sorted[i].v]

\* A slip of getInterfaceName: the names count from 0.
getInterfaceNameFromZero(idx) == Str_GigabitEthernet \o << "0", "/" >> \o NumToString(idx)

\* getInterfaceName(idx): `GigabitEthernet0/${idx + 1}`
getInterfaceName(idx) == Str_GigabitEthernet \o << "0", "/" >> \o NumToString(idx + 1)
-----------------------------------------------------------------------------
\* TerminalWindow: output generators

\* getHelp(mode): the heading, one line per command of the mode, and the
\* empty text after the last line break
HelpCmds(mode) ==
    CASE mode = UserExec -> << "enable", "ping", "show", "exit" >>
      [] mode = PrivilegedExec ->
             << "configure", "show running-config", "show vlan", "show ip interface", "reload" >>
      [] mode = GlobalConfig -> << "hostname", "interface", "vlan", "ip routing", "exit" >>
      [] mode = InterfaceConfig ->
             << "switchport", "ip address", "shutdown", "no shutdown", "exit" >>
      [] mode = VlanConfig -> << "name", "exit" >>
      [] OTHER -> << >>

getHelp(mode) ==
    Fixed("Exec commands:")
    \o [i \in 1..Len(HelpCmds(mode)) |-> TextLine("help", HelpCmds(mode)[i], << >>, << >>, 0)]
    \o << EmptyLine >>

\* One row of `show ip interface brief`
IpIntBriefRow(node, ifName) ==
    LET has == HasInterface(node.interfaces, ifName)
        hasIp == has /\ Truthy(InterfaceOf(node.interfaces, ifName).ip)
        down == has /\ InterfaceOf(node.interfaces, ifName).shutdown
    IN  TextLine("ifrow",
                 (IF hasIp THEN "manual" ELSE "unset")
                     \o (IF down THEN " admin down down" ELSE " up up"),
                 ifName,
                 IF hasIp THEN InterfaceOf(node.interfaces, ifName).ip ELSE Str_unassigned,
                 0)

\* getDynamicIpIntBrief()
getDynamicIpIntBrief(nds, eds, nodeId) ==
    LET n == FindNode(nds, nodeId)
        nodeEdges == getSortedEdges(eds, nodeId)
    IN  IF n = NoNode THEN << EmptyLine >>
        ELSE Fixed("Interface IP-Address OK? Method Status Protocol")
             \o [i \in 1..Len(nodeEdges) |-> IpIntBriefRow(n, getInterfaceName(i - 1))]
             \o (IF Len(nodeEdges) = 0
                 THEN Fixed("GigabitEthernet0/1 unassigned YES unset up down")
                 ELSE << >>)
             \o << EmptyLine >>

\* The lines of one interface in the running configuration
RunningInterface(c) ==
    << TextLine("interface", "", c.name, << >>, 0) >>
    \o (IF Truthy(c.description)
        THEN << TextLine(" description", "", c.description, << >>, 0) >> ELSE << >>)
    \o (IF c.switchportMode = "access"
        THEN Fixed(" switchport mode access")
             \o (IF c.accessVlan # 1
                 THEN << TextLine(" switchport access vlan", "", << >>, << >>, c.accessVlan) >>
                 ELSE << >>)
        ELSE << >>)
    \o (IF c.switchportMode = "trunk"
        THEN Fixed(" switchport mode trunk")
             \o << TextLine(" switchport trunk allowed vlan", "", c.trunkAllowedVlans, << >>, 0) >>
        ELSE << >>)
    \o (IF Truthy(c.ip) THEN << TextLine(" ip address", "", c.ip, c.mask, 0) >> ELSE << >>)
    \o (IF c.shutdown THEN Fixed(" shutdown") ELSE << >>)
    \o Fixed("!")

RECURSIVE Flatten(_)
Flatten(seqs) == IF seqs = << >> THEN << >> ELSE Head(seqs) \o Flatten(Tail(seqs))

\* getRunningConfig()
getRunningConfig(nds, nodeId) ==
    LET n == FindNode(nds, nodeId)
        vlans == IF n.vlanDb.defined THEN n.vlanDb.entries ELSE << >>
        ifs == IF n.interfaces.defined THEN n.interfaces.entries ELSE << >>
        sortedIfs == SortKeyed([i \in 1..Len(ifs) |-> [k |-> ifs[i].name, v |-> ifs[i]]])
    IN  IF n = NoNode THEN << EmptyLine >>
        ELSE Fixed("Building configuration...") \o << EmptyLine >> \o Fixed("version 15.2")
             \o << TextLine("hostname", "",
                            IF Truthy(n.hostname) THEN n.hostname ELSE n.label, << >>, 0) >>
             \o Fixed("!")
             \o Flatten([i \in 1..Len(vlans) |->
                    << TextLine("vlan", "", << >>, << >>, vlans[i].vid),
                       TextLine(" name", "", vlans[i].name, << >>, 0) >> \o Fixed("!")])
             \o Flatten([i \in 1..Len(sortedIfs) |-> RunningInterface(sortedIfs[i].v)])
             \o Fixed("end")

\* config.name.replace('GigabitEthernet', 'Gi').replace('FastEthernet', 'Fa')
RECURSIVE ReplaceFirst(_, _, _)
ReplaceFirst(s, what, by) ==
    IF Len(s) < Len(what) THEN s
    ELSE IF StartsWith(s, what) THEN by \o SubSeq(s, Len(what) + 1, Len(s))
    ELSE << Head(s) >> \o ReplaceFirst(Tail(s), what, by)

ShortName(name) ==
    ReplaceFirst(ReplaceFirst(name, Str_GigabitEthernet, Str_Gi), Str_FastEthernet, Str_Fa)

\* Stable sort of the VLAN entries by id
RECURSIVE InsertVlan(_, _)
InsertVlan(sorted, x) ==
    IF sorted = << >> THEN << x >>
    ELSE IF x.vid < Head(sorted).vid THEN << x >> \o sorted
    ELSE << Head(sorted) >> \o InsertVlan(Tail(sorted), x)

RECURSIVE SortVlans(_)
SortVlans(entries) ==
    IF entries = << >> THEN << >>
    ELSE InsertVlan(SortVlans(SubSeq(entries, 1, Len(entries) - 1)), entries[Len(entries)])

\* getVlanBrief(); a table that exists always holds VLAN 1, so the in-place
\* `if (!vlanDb[1]) vlanDb[1] = 'default'` never writes to a stored table
getVlanBrief(nds, nodeId) ==
    LET n == FindNode(nds, nodeId)
        stored == IF n.vlanDb.defined THEN n.vlanDb.entries ELSE DefaultVlanEntries
        vlanDb == IF HasVlan(stored, 1) THEN stored ELSE PutVlan(stored, 1, Str_default)
        rows == SortVlans(vlanDb)
        ifs == IF n.interfaces.defined THEN n.interfaces.entries ELSE << >>
        ports(vid) == SelectSeq(ifs, LAMBDA c :
                          /\ c.switchportMode = "access"
                          /\ (IF c.accessVlan = 0 THEN 1 ELSE c.accessVlan) = vid)
        names(vid) == [i \in 1..Len(ports(vid)) |-> ShortName(ports(vid)[i].name)]
    IN  IF n = NoNode THEN << EmptyLine >>
        ELSE Fixed("VLAN Name Status Ports") \o Fixed("---- ---- ---- ----")
             \o [i \in 1..Len(rows) |->
                    TextLine("vlanrow", "active", rows[i].name,
                             Join(names(rows[i].vid), << ",", " " >>), rows[i].vid)]
             \o << EmptyLine >>
-----------------------------------------------------------------------------
\* TerminalWindow: the command words handleCommand compares its input with

Cmd_exit == << "e","x","i","t" >>

Cmd_end == << "e","n","d" >>

Cmd_question == << "?" >>

Cmd_help == << "h","e","l","p" >>

Cmd_clear == << "c","l","e","a","r" >>

Cmd_cls == << "c","l","s" >>

Cmd_do == << "d","o" >>

Cmd_show_vlan == << "s","h","o","w"," ","v","l","a","n" >>

Cmd_show_ip_int == << "s","h","o","w"," ","i","p"," ","i","n","t" >>

Cmd_ping == << "p","i","n","g" >>

Cmd_enable == << "e","n","a","b","l","e" >>

Cmd_en == << "e","n" >>

Cmd_show_version == << "s","h","o","w"," ","v","e","r","s","i","o","n" >>

Cmd_sh_ver == << "s","h"," ","v","e","r" >>

Cmd_configure_terminal == << "c","o","n","f","i","g","u","r","e"," ","t","e","r","m","i","n","a","l" >>

Cmd_conf_t == << "c","o","n","f"," ","t" >>

Cmd_show_running_config == << "s","h","o","w"," ","r","u","n","n","i","n","g","-","c","o","n","f","i","g" >>

Cmd_sh_run == << "s","h"," ","r","u","n" >>

Cmd_show_vlan_brief == << "s","h","o","w"," ","v","l","a","n"," ","b","r","i","e","f" >>

Cmd_sh_vlan_br == << "s","h"," ","v","l","a","n"," ","b","r" >>

Cmd_sh_vlan == << "s","h"," ","v","l","a","n" >>

Cmd_show_ip_interface_brief == << "s","h","o","w"," ","i","p"," ","i","n","t","e","r","f","a","c","e"," ","b","r","i","e","f" >>

Cmd_sh_ip_int_br == << "s","h"," ","i","p"," ","i","n","t"," ","b","r" >>

Cmd_reload == << "r","e","l","o","a","d" >>

Cmd_vlan == << "v","l","a","n" >>

Cmd_hostname == << "h","o","s","t","n","a","m","e" >>

Cmd_interface == << "i","n","t","e","r","f","a","c","e" >>

Cmd_ip_routing == << "i","p"," ","r","o","u","t","i","n","g" >>

Cmd_shut == << "s","h","u","t" >>

Cmd_no_shut == << "n","o"," ","s","h","u","t" >>

Cmd_switchport_mode == << "s","w","i","t","c","h","p","o","r","t"," ","m","o","d","e" >>

Cmd_trunk == << "t","r","u","n","k" >>

Cmd_switchport_access_vlan == << "s","w","i","t","c","h","p","o","r","t"," ","a","c","c","e","s","s"," ","v","l","a","n" >>

Cmd_switchport_trunk_allowed_vlan == << "s","w","i","t","c","h","p","o","r","t"," ","t","r","u","n","k"," ","a","l","l","o","w","e","d"," ","v","l","a","n" >>

Cmd_ip_address == << "i","p"," ","a","d","d","r","e","s","s" >>

Cmd_name == << "n","a","m","e" >>
-----------------------------------------------------------------------------
\* TerminalWindow: handleCommand

\* What handleCommand reads: the props and the context state
World(state, nds, eds, cInt, cVlan, cLine) ==
    [state |-> state, nodes |-> nds, edges |-> eds,
     contextInt |-> cInt, contextVlan |-> cVlan, contextLine |-> cLine]

\* What handleCommand holds when it reaches its end: how it left (kind is
\* "done" unless it returned early), the response, newMode, newHostname, and
\* the device list and contexts after its setNodes / setContext calls
Keep(w) ==
    [kind |-> "done", response |-> << EmptyLine >>,
     mode |-> w.state.mode, hostname |-> w.state.hostname, nodes |-> w.nodes,
     contextInt |-> w.contextInt, contextVlan |-> w.contextVlan,
     contextLine |-> w.contextLine]

\* A slip of a response: it also drops the session to UserExec.
RespondAndDrop(w, response) == [Keep(w) EXCEPT !.response = response, !.mode = UserExec]

Respond(w, response) == [Keep(w) EXCEPT !.response = response]

\* getNode()
getNode(w) == FindNode(w.nodes, w.state.nodeId)

\* nds.map(n => n.id === state.nodeId ? f(n) : n)
UpdateNode(w, f(_)) ==
    [i \in 1..Len(w.nodes) |->
        IF w.nodes[i].id = w.state.nodeId THEN f(w.nodes[i]) ELSE w.nodes[i]]

\* A slip of `exit`: every configuration sub-mode leaves to PrivilegedExec.
exitCommandToTop(w) ==
    CASE w.state.mode \in {LineConfig, InterfaceConfig, VlanConfig, GlobalConfig} ->
             [Keep(w) EXCEPT !.mode = PrivilegedExec, !.contextLine = << >>,
                             !.contextInt = << >>, !.contextVlan = 0]
      [] w.state.mode = PrivilegedExec -> [Keep(w) EXCEPT !.mode = UserExec]
      [] OTHER -> [Keep(w) EXCEPT !.kind = "close"]

\* cmd === 'exit'
exitCommand(w) ==
    CASE w.state.mode = LineConfig ->
             [Keep(w) EXCEPT !.mode = GlobalConfig, !.contextLine = << >>]
      [] w.state.mode = InterfaceConfig ->
             [Keep(w) EXCEPT !.mode = GlobalConfig, !.contextInt = << >>]
      [] w.state.mode = VlanConfig ->
             [Keep(w) EXCEPT !.mode = GlobalConfig, !.contextVlan = 0]
      [] w.state.mode = GlobalConfig -> [Keep(w) EXCEPT !.mode = PrivilegedExec]
      [] w.state.mode = PrivilegedExec -> [Keep(w) EXCEPT !.mode = UserExec]
      [] OTHER -> [Keep(w) EXCEPT !.kind = "close"]

\* cmd === 'end'
endCommand(w) ==
    [Keep(w) EXCEPT !.mode = PrivilegedExec, !.contextInt = << >>,
                    !.contextLine = << >>, !.contextVlan = 0]

\* firstToken === 'do'
doCommand(w, cmd) ==
    LET subCmd == Trim(Substring(cmd, 3))
    IN  IF matchCmd(subCmd, Cmd_show_run)
        THEN Respond(w, getRunningConfig(w.nodes, w.state.nodeId))
        ELSE IF matchCmd(subCmd, Cmd_show_vlan)
        THEN Respond(w, getVlanBrief(w.nodes, w.state.nodeId))
        ELSE IF matchCmd(subCmd, Cmd_show_ip_int)
        THEN Respond(w, getDynamicIpIntBrief(w.nodes, w.edges, w.state.nodeId))
        ELSE IF matchCmd(subCmd, Cmd_ping)
        THEN Respond(w, Fixed("Sending 5, 100-byte ICMP Echos... !!!!!"))
        ELSE Respond(w, Fixed("% Unrecognized command"))

\* nodes.find(n => n.data.ip === targetIP)
FindByIp(nds, ip) ==
    IF \E i \in 1..Len(nds) : nds[i].ip = ip
    THEN nds[CHOOSE i \in 1..Len(nds) :
                 nds[i].ip = ip /\ \A j \in 1..(i - 1) : nds[j].ip # ip]
    ELSE NoNode

\* The response of ping <targetIP> in UserExec
pingResponse(w, targetIP) ==
    LET targetNode == FindByIp(w.nodes, targetIP)
        res == findPath(w.nodes, w.edges, w.state.nodeId, targetNode.id)
        sending == << TextLine("Sending 5, 100-byte ICMP Echos to", "", targetIP, << >>, 0) >>
        failed == sending \o Fixed(".....") \o Fixed("Success rate is 0 percent (0/5).")
    IN  IF targetNode = NoNode THEN failed
        ELSE IF res.success
        THEN sending \o Fixed("!!!!!") \o Fixed("Success rate is 100 percent (5/5).")
        ELSE failed \o << TextLine(res.message.kind, "", res.message.a,
                                   res.message.b, res.message.n) >>

\* state.mode === '>'
userExec(w, cmd, tokens) ==
    IF matchCmd(cmd, Cmd_enable) \/ cmd = Cmd_en
    THEN [Keep(w) EXCEPT !.mode = PrivilegedExec]
    ELSE IF matchCmd(cmd, Cmd_ping)
    THEN IF ~Truthy(At(tokens, 1)) THEN Respond(w, Fixed("% Incomplete command."))
         ELSE Respond(w, pingResponse(w, At(tokens, 1)))
    ELSE IF matchCmd(cmd, Cmd_show_version) \/ cmd = Cmd_sh_ver
    THEN Respond(w, Fixed("Cisco IOS Software, 15.2(4)E")
                    \o Fixed("System image file is \"flash:C2960-LANBASEK9-M.bin\""))
    ELSE IF cmd # Cmd_exit THEN Respond(w, Fixed("% Unknown command"))
    ELSE Keep(w)

\* state.mode === '#'
privilegedExec(w, cmd, firstToken) ==
    IF matchCmd(cmd, Cmd_configure_terminal) \/ cmd = Cmd_conf_t
    THEN [Keep(w) EXCEPT
             !.mode = GlobalConfig,
             !.response = Fixed("Enter configuration commands, one per line.  End with CNTL/Z.")]
    ELSE IF matchCmd(cmd, Cmd_show_running_config) \/ cmd = Cmd_sh_run
    THEN Respond(w, getRunningConfig(w.nodes, w.state.nodeId))
    ELSE IF matchCmd(cmd, Cmd_show_vlan_brief) \/ cmd = Cmd_sh_vlan_br \/ cmd = Cmd_sh_vlan
    THEN Respond(w, getVlanBrief(w.nodes, w.state.nodeId))
    ELSE IF matchCmd(cmd, Cmd_show_ip_interface_brief) \/ cmd = Cmd_sh_ip_int_br
    THEN Respond(w, getDynamicIpIntBrief(w.nodes, w.edges, w.state.nodeId))
    ELSE IF matchCmd(cmd, Cmd_reload) THEN [Keep(w) EXCEPT !.kind = "reload"]
    ELSE IF firstToken = Cmd_vlan
    THEN Respond(w, Fixed("% Incomplete command. Use \"configure terminal\" first."))
    ELSE IF cmd # Cmd_exit THEN Respond(w, Fixed("% Unknown command"))
    ELSE Keep(w)
\* intName.replace(/^g[a-z]*/i, 'GigabitEthernet') and the same for f
RECURSIVE DropLetters(_)
DropLetters(s) == IF s # << >> /\ IsLetter(Head(s)) THEN DropLetters(Tail(s)) ELSE s

FullInterfaceName(intName) ==
    IF StartsWith(ToLowerCase(intName), << "g" >>)
    THEN Str_GigabitEthernet \o DropLetters(intName)
    ELSE IF StartsWith(ToLowerCase(intName), << "f" >>)
    THEN Str_FastEthernet \o DropLetters(intName)
    ELSE intName

\* A slip of the switch test: every device that exists takes VLANs.
SupportsVlansAnyDevice(node) == node # NoNode

\* getNode()?.data.type.includes('SWITCH')
SupportsVlans(node) == node # NoNode /\ node.type \in {SWITCH_L2, SWITCH_L3}

\* state.mode === '(config)#'
globalConfig(w, cmd, tokens, firstToken) ==
    IF matchCmd(cmd, Cmd_hostname)
    THEN IF Truthy(At(tokens, 1))
         THEN [Keep(w) EXCEPT
                  !.hostname = At(tokens, 1),
                  !.nodes = UpdateNode(w, LAMBDA n :
                                [n EXCEPT !.hostname = At(tokens, 1), !.label = At(tokens, 1)])]
         ELSE Keep(w)
    ELSE IF matchCmd(cmd, Cmd_interface)
    THEN IF Truthy(At(tokens, 1))
         THEN [Keep(w) EXCEPT
                  !.mode = InterfaceConfig,
                  !.contextInt = FullInterfaceName(At(tokens, 1)),
                  !.nodes = UpdateNode(w, LAMBDA n :
                                ensureInterface(n, FullInterfaceName(At(tokens, 1))))]
         ELSE Respond(w, Fixed("% Incomplete command."))
    ELSE IF firstToken = Cmd_vlan
    THEN IF ~SupportsVlans(getNode(w))
         THEN Respond(w, Fixed("% Command rejected: Device does not support VLANs."))
         ELSE LET vid == ParseInt(At(tokens, 1))
              IN  IF ~vid.nan
                  THEN [Keep(w) EXCEPT
                           !.mode = VlanConfig,
                           !.contextVlan = vid.val,
                           !.nodes = UpdateNode(w, LAMBDA n :
                                         [n EXCEPT !.vlanDb = withVlan(n.vlanDb, vid.val)])]
                  ELSE Respond(w, Fixed("% Invalid input detected at marker."))
    ELSE IF matchCmd(cmd, Cmd_ip_routing)
    THEN [Keep(w) EXCEPT !.nodes = UpdateNode(w, LAMBDA n : [n EXCEPT !.ipRouting = TRUE])]
    ELSE IF cmd # Cmd_exit THEN Respond(w, Fixed("% Invalid input detected at marker."))
    ELSE Keep(w)

\* updateInt(updater): only a device that holds interfaces[contextInt] changes
updateInt(w, nds, updater(_)) ==
    [i \in 1..Len(nds) |->
        IF nds[i].id = w.state.nodeId /\ HasInterface(nds[i].interfaces, w.contextInt)
        THEN [nds[i] EXCEPT !.interfaces.entries =
                 [k \in 1..Len(nds[i].interfaces.entries) |->
                     IF nds[i].interfaces.entries[k].name = w.contextInt
                     THEN updater(nds[i].interfaces.entries[k])
                     ELSE nds[i].interfaces.entries[k]]]
        ELSE nds[i]]

\* contextInt.match(/\d+$/): the digits the text ends with ('' when none)
RECURSIVE TrailingDigits(_)
TrailingDigits(s) ==
    IF s # << >> /\ IsDigit(s[Len(s)])
    THEN TrailingDigits(SubSeq(s, 1, Len(s) - 1)) \o << s[Len(s)] >>
    ELSE << >>

\* cmd.split('vlan')[1]: what stands between the first and the second 'vlan'
RECURSIVE BeforeWord(_, _)
BeforeWord(s, word) ==
    IF s = << >> \/ StartsWith(s, word) THEN << >>
    ELSE << Head(s) >> \o BeforeWord(Tail(s), word)

SecondPiece(s, word) ==
    IF ~Includes(s, word) THEN Undefined
    ELSE BeforeWord(SubSeq(s, Len(BeforeWord(s, word)) + Len(word) + 1, Len(s)), word)

\* The end devices switchport access vlan propagates to
TakesAssignedVlan(node) == node.type \in {PC, PRINTER, SERVER}

\* matchCmd(cmd, 'switchport access vlan')
switchportAccessVlan(w, cmd) ==
    LET pieces == SplitChar(cmd, " ")
        last == pieces[Len(pieces)]
        vid == ParseInt(IF last = << >> THEN << "1" >> ELSE last)
        updated == updateInt(w, w.nodes, LAMBDA c : [c EXCEPT !.accessVlan = vid.val])
        nodeEdges == getSortedEdges(w.edges, w.state.nodeId)
        match == TrailingDigits(w.contextInt)
        portIdx == DigitsValue(match, 0) - 1
        targetEdge == nodeEdges[portIdx + 1]
        neighborId == IF targetEdge.source = w.state.nodeId
                      THEN targetEdge.target ELSE targetEdge.source
    IN  IF vid.nan THEN Keep(w)
        ELSE IF match = << >> \/ portIdx + 1 \notin 1..Len(nodeEdges)
        THEN [Keep(w) EXCEPT !.nodes = updated]
        ELSE [Keep(w) EXCEPT
                 !.nodes = [i \in 1..Len(updated) |->
                               IF updated[i].id = neighborId /\ TakesAssignedVlan(updated[i])
                               THEN [updated[i] EXCEPT !.assignedVlan = vid.val]
                               ELSE updated[i]],
                 !.response = << TextLine("[Sim]: Assigned neighbor device to VLAN", "",
                                          w.contextInt, << >>, vid.val) >>]

\* A slip of shutdown and no shutdown: the record of the interface is built
\* anew around the flag, its other fields back at their defaults.
interfaceConfigRebuildsRecord(w, cmd) ==
    IF matchCmd(cmd, Cmd_shutdown) \/ cmd = Cmd_shut
    THEN [Keep(w) EXCEPT
             !.nodes = updateInt(w, w.nodes, LAMBDA c :
                           [NewInterface(c.name) EXCEPT !.shutdown = TRUE]),
             !.response = << TextLine("%LINK-5-CHANGED", "", w.contextInt, << >>, 0) >>]
    ELSE IF matchCmd(cmd, Cmd_no_shutdown) \/ cmd = Cmd_no_shut
    THEN [Keep(w) EXCEPT
             !.nodes = updateInt(w, w.nodes, LAMBDA c :
                           [NewInterface(c.name) EXCEPT !.shutdown = FALSE]),
             !.response = << TextLine("%LINK-3-UPDOWN", "", w.contextInt, << >>, 0) >>]
    ELSE IF cmd # Cmd_exit THEN Respond(w, Fixed("% Invalid input detected at marker."))
    ELSE Keep(w)

\* state.mode === '(config-if)#'
interfaceConfig(w, cmd) ==
    IF matchCmd(cmd, Cmd_shutdown) \/ cmd = Cmd_shut
    THEN [Keep(w) EXCEPT
             !.nodes = updateInt(w, w.nodes, LAMBDA c : [c EXCEPT !.shutdown = TRUE]),
             !.response = << TextLine("%LINK-5-CHANGED", "", w.contextInt, << >>, 0) >>]
    ELSE IF matchCmd(cmd, Cmd_no_shutdown) \/ cmd = Cmd_no_shut
    THEN [Keep(w) EXCEPT
             !.nodes = updateInt(w, w.nodes, LAMBDA c : [c EXCEPT !.shutdown = FALSE]),
             !.response = << TextLine("%LINK-3-UPDOWN", "", w.contextInt, << >>, 0) >>]
    ELSE IF matchCmd(cmd, Cmd_switchport_mode)
    THEN [Keep(w) EXCEPT
             !.nodes = updateInt(w, w.nodes, LAMBDA c :
                           [c EXCEPT !.switchportMode =
                               IF Includes(cmd, Cmd_trunk) THEN "trunk" ELSE "access"])]
    ELSE IF matchCmd(cmd, Cmd_switchport_access_vlan) THEN switchportAccessVlan(w, cmd)
    ELSE IF matchCmd(cmd, Cmd_switchport_trunk_allowed_vlan)
    THEN IF Truthy(SecondPiece(cmd, Cmd_vlan)) /\ Trim(SecondPiece(cmd, Cmd_vlan)) # << >>
         THEN [Keep(w) EXCEPT
                  !.nodes = updateInt(w, w.nodes, LAMBDA c :
                                [c EXCEPT !.trunkAllowedVlans = Trim(SecondPiece(cmd, Cmd_vlan))])]
         ELSE Keep(w)
    ELSE IF matchCmd(cmd, Cmd_ip_address)
    THEN IF Len(SplitChar(cmd, " ")) >= 4
         THEN [Keep(w) EXCEPT
                  !.nodes = updateInt(w, w.nodes, LAMBDA c :
                                [c EXCEPT !.ip = SplitChar(cmd, " ")[3],
                                          !.mask = SplitChar(cmd, " ")[4]])]
         ELSE Respond(w, Fixed("% Incomplete command."))
    ELSE IF cmd # Cmd_exit THEN Respond(w, Fixed("% Invalid input detected at marker."))
    ELSE Keep(w)

\* state.mode === '(config-vlan)#'
vlanConfig(w, cmd, tokens, firstToken) ==
    IF matchCmd(cmd, Cmd_name)
    THEN IF Truthy(At(tokens, 1))
         THEN [Keep(w) EXCEPT
                  !.nodes = UpdateNode(w, LAMBDA n :
                                IF n.vlanDb.defined
                                THEN [n EXCEPT !.vlanDb.entries =
                                         PutVlan(n.vlanDb.entries, w.contextVlan, At(tokens, 1))]
                                ELSE n)]
         ELSE Keep(w)
    ELSE IF firstToken = Cmd_vlan \/ ~ParseInt(firstToken).nan
    THEN Respond(w, Fixed("% Invalid input. Type \"exit\" to return to global config mode first."))
    ELSE IF cmd # Cmd_exit THEN Respond(w, Fixed("% Invalid input detected at marker."))
    ELSE Keep(w)
\* The branches of handleCommand for the trimmed input cmd, its tokens and
\* the first of them in lower case
handleCommandBranches(w, cmd, tokens, firstToken) ==
    IF cmd = << >> THEN [Keep(w) EXCEPT !.kind = "empty"]
    ELSE IF cmd = Cmd_exit THEN exitCommand(w)
    ELSE IF cmd = Cmd_end THEN endCommand(w)
    ELSE IF cmd = Cmd_question \/ cmd = Cmd_help THEN Respond(w, getHelp(w.state.mode))
    ELSE IF cmd = Cmd_clear \/ cmd = Cmd_cls THEN [Keep(w) EXCEPT !.kind = "clear"]
    ELSE IF firstToken = Cmd_do THEN doCommand(w, cmd)
    ELSE IF w.state.mode = UserExec THEN userExec(w, cmd, tokens)
    ELSE IF w.state.mode = PrivilegedExec THEN privilegedExec(w, cmd, firstToken)
    ELSE IF w.state.mode = GlobalConfig THEN globalConfig(w, cmd, tokens, firstToken)
    ELSE IF w.state.mode = InterfaceConfig THEN interfaceConfig(w, cmd)
    ELSE IF w.state.mode = VlanConfig THEN vlanConfig(w, cmd, tokens, firstToken)
    ELSE Keep(w)

\* handleCommand up to its last line, for the input cmdRaw: kind tells how it
\* returned ("empty", "clear", "reload", "close", or "done" at its end)
handleCommandResult(w, cmdRaw) ==
    handleCommandBranches(w, Trim(cmdRaw), SplitWs(Trim(cmdRaw)),
                          ToLowerCase(At(SplitWs(Trim(cmdRaw)), 0)))

\* `${state.hostname}${state.mode} ${cmdRaw}` and `${state.hostname}${state.mode}`
PromptLine(state, cmdRaw) == TextLine("prompt", state.mode, state.hostname, cmdRaw, 0)

BarePrompt(state) == TextLine("bare prompt", state.mode, state.hostname, << >>, 0)

\* response.startsWith('%')
PercentTexts ==
    {"% Unknown command", "% Unrecognized command", "% Incomplete command.",
     "% Incomplete command. Use \"configure terminal\" first.",
     "% Command rejected: Device does not support VLANs.",
     "% Invalid input detected at marker.",
     "% Invalid input. Type \"exit\" to return to global config mode first.",
     "%LINK-5-CHANGED", "%LINK-3-UPDOWN"}

StartsWithPercent(response) == Head(response).t \in PercentTexts

\* appendOutput(txt): [...prev, prompt, ...lines].filter(Boolean)
appendOutput(prev, state, cmdRaw, response) ==
    SelectSeq(prev \o << PromptLine(state, cmdRaw) >> \o response, LAMBDA l : l # EmptyLine)

\* The world handleCommand runs in
CurrentWorld == World(terminalState, nodes, edges, contextInt, contextVlan, contextLine)

\* Commands a session has taken, and prompts the transcript holds
MaxHistory == 4

MaxOutput == 4

\* getCLIFix promises in flight at a time
MaxTips == 4

NumPrompts(out) == Len(SelectSeq(out, LAMBDA l : l.t \in {"prompt", "bare prompt"}))

\* The state updates of handleCommand, r being what it computed for cmdRaw
handleCommandUpdates(r, cmdRaw) ==
        /\ terminalState.isOpen /\ ~isBooting
        /\ Len(terminalState.history) < MaxHistory
        /\ NumPrompts(output) < MaxOutput
        /\ pendingTips < MaxTips
        /\ historyIdx' = -1
        /\ CASE r.kind = "empty" ->
                   /\ output' = Append(output, BarePrompt(terminalState))
                   /\ input' = cmdRaw
                   /\ UNCHANGED << nodes, terminalState, contextInt, contextVlan, contextLine,
                                   isBooting, reloadTimer, pendingTips >>
             [] r.kind = "clear" ->
                   /\ output' = << >>
                   /\ input' = cmdRaw
                   /\ UNCHANGED << nodes, terminalState, contextInt, contextVlan, contextLine,
                                   isBooting, reloadTimer, pendingTips >>
             [] r.kind = "reload" ->
                   /\ isBooting' = TRUE
                   /\ output' = << >>
                   /\ reloadTimer' = [pending |-> TRUE, hostname |-> terminalState.hostname]
                   /\ input' = cmdRaw
                   /\ UNCHANGED << nodes, terminalState, contextInt, contextVlan, contextLine,
                                   pendingTips >>
             [] r.kind = "close" ->
                   /\ terminalState' = [terminalState EXCEPT !.isOpen = FALSE]
                   /\ input' = cmdRaw
                   /\ UNCHANGED << nodes, contextInt, contextVlan, contextLine, isBooting,
                                   output, reloadTimer, pendingTips >>
             [] OTHER ->
                   /\ nodes' = r.nodes
                   /\ contextInt' = r.contextInt
                   /\ contextVlan' = r.contextVlan
                   /\ contextLine' = r.contextLine
                   /\ output' = appendOutput(output, terminalState, cmdRaw, r.response)
                   /\ terminalState' =
                          [terminalState EXCEPT
                              !.mode = r.mode, !.hostname = r.hostname,
                              !.history = SelectSeq(Append(terminalState.history, cmdRaw),
                                                    LAMBDA c : c # << >>)]
                   /\ input' = << >>
                   /\ pendingTips' =
                          IF StartsWithPercent(r.response)
                          THEN pendingTips + 1
                          ELSE pendingTips
                   /\ UNCHANGED << isBooting, reloadTimer >>
        /\ UNCHANGED << edges, selectedNode, simResult, matchArgs, matchResult, toast, idCounter >>

\* Enter pressed with cmdRaw in the input box (onChange, then handleKeyDown)
handleCommand(cmdRaw) ==
    handleCommandUpdates(handleCommandResult(CurrentWorld, cmdRaw), cmdRaw)

\* A slip of the timer callback: the contexts are left as they are.
reloadElapsedKeepsContext ==
    /\ reloadTimer.pending
    /\ isBooting' = FALSE
    /\ output' = Fixed("Press RETURN to get started.")
    /\ terminalState' = [terminalState EXCEPT !.mode = UserExec,
                                              !.hostname = reloadTimer.hostname]
    /\ reloadTimer' = NoTimer
    /\ UNCHANGED << nodes, edges, selectedNode, historyIdx, input, pendingTips,
                    contextInt, contextVlan, contextLine,
                    simResult, matchArgs, matchResult, toast, idCounter >>

\* The reload timer fires after 3000 ms
reloadElapsed ==
    /\ reloadTimer.pending
    /\ isBooting' = FALSE
    /\ output' = Fixed("Press RETURN to get started.")
    /\ contextInt' = << >>
    /\ contextLine' = << >>
    /\ contextVlan' = 0
    /\ terminalState' = [terminalState EXCEPT !.mode = UserExec,
                                              !.hostname = reloadTimer.hostname]
    /\ reloadTimer' = NoTimer
    /\ UNCHANGED << nodes, edges, selectedNode, historyIdx, input, pendingTips,
                    simResult, matchArgs, matchResult, toast, idCounter >>

\* A getCLIFix promise settles with the text tip ('' when the service is
\* absent, fails or answers nothing): the .then callback of handleCommand
getCLIFixSettled(tip) ==
    /\ pendingTips > 0
    /\ pendingTips' = pendingTips - 1
    /\ output' = IF tip # << >>
                 THEN Append(output, TextLine("[AI Tip]:", "", tip, << >>, 0))
                 ELSE output
    /\ UNCHANGED << nodes, edges, selectedNode, terminalState, contextInt, contextVlan,
                    contextLine, isBooting, historyIdx, input, reloadTimer,
                    simResult, matchArgs, matchResult, toast, idCounter >>

\* onNodeClick: the clicked device object becomes the selection
onNodeClick(i) ==
    /\ i \in 1..Len(nodes)
    /\ selectedNode' = nodes[i]
    /\ UNCHANGED << nodes, edges, terminalState, contextInt, contextVlan, contextLine,
                    isBooting, historyIdx, input, output, reloadTimer, pendingTips,
                    simResult, matchArgs, matchResult, toast, idCounter >>

\* label.replace(/\s+/g, '-')
RECURSIVE DashSpaces(_)
DashSpaces(s) ==
    IF s = << >> THEN << >>
    ELSE IF IsSpace(Head(s)) THEN << "-" >> \o DashSpaces(TrimStart(s))
    ELSE << Head(s) >> \o DashSpaces(Tail(s))

\* The banner the terminal shows when it opens on an empty transcript
Banner(deviceType) ==
    Fixed("NetOS (C) 2024 Systems, Inc.")
    \o << TextLine("Hardware:", deviceType, << >>, << >>, 0) >>
    \o Fixed("Press RETURN to get started.")

\* The CLI button: openTerminal, and TerminalWindow's effect on state.isOpen
openTerminal ==
    /\ selectedNode # NoSelection
    /\ terminalState' = [isOpen |-> TRUE, nodeId |-> selectedNode.id, history |-> << >>,
                         hostname |-> DashSpaces(selectedNode.label), mode |-> UserExec]
    /\ output' = IF ~terminalState.isOpen /\ output = << >>
                 THEN Banner(selectedNode.type) ELSE output
    /\ UNCHANGED << nodes, edges, selectedNode, contextInt, contextVlan, contextLine,
                    isBooting, historyIdx, input, reloadTimer, pendingTips,
                    simResult, matchArgs, matchResult, toast, idCounter >>

\* The X button of the terminal window: onClose
onClose ==
    /\ terminalState.isOpen
    /\ terminalState' = [terminalState EXCEPT !.isOpen = FALSE]
    /\ UNCHANGED << nodes, edges, selectedNode, contextInt, contextVlan, contextLine,
                    isBooting, historyIdx, input, output, reloadTimer, pendingTips,
                    simResult, matchArgs, matchResult, toast, idCounter >>
-----------------------------------------------------------------------------
\* The command interpreter on the small-office template

ACCESS_POINT == "ACCESS_POINT"

\* NETWORK_TEMPLATES['small-office'], with 0 for the time stamp baseId
SmallOfficeNodes ==
    << Device("r-0", << "G","a","t","e","w","a","y"," ","R","o","u","t","e","r" >>, ROUTER, "up", Undefined),
       Device("sw-0", << "C","o","r","e"," ","S","w","i","t","c","h" >>, SWITCH_L2, "up", Undefined),
       Device("ap-0", << "W","i","f","i"," ","A","P" >>, ACCESS_POINT, "up", Undefined),
       Device("pc-0", << "U","s","e","r"," ","P","C" >>, PC, "up", Undefined) >>

SmallOfficeEdges ==
    << Link(<< "e","1","-","0" >>, "r-0", "sw-0"),
       Link(<< "e","2","-","0" >>, "sw-0", "ap-0"),
       Link(<< "e","3","-","0" >>, "sw-0", "pc-0") >>

\* The device list after loadTemplate('small-office')
OfficeNodes == InitialNodes \o SmallOfficeNodes

Name_SALES == << "S","A","L","E","S" >>

\* The same list after an earlier session on the Core Switch took
\* enable, configure terminal, vlan 10, name SALES, exit, interface g0/1
ConfiguredOfficeNodes ==
    [i \in 1..Len(OfficeNodes) |->
        IF OfficeNodes[i].id = "sw-0"
        THEN [OfficeNodes[i] EXCEPT
                 !.vlanDb = [defined |-> TRUE,
                             entries |-> << [vid |-> 1, name |-> Str_default],
                                            [vid |-> 10, name |-> Name_SALES] >>],
                 !.interfaces = [defined |-> TRUE,
                                 entries |-> << NewInterface(getInterfaceName(0)) >>]]
        ELSE OfficeNodes[i]]

\* Lines typed at the prompt
Line_interface_g0_1 == << "i","n","t","e","r","f","a","c","e"," ","g","0","/","1" >>

Line_vlan_10 == << "v","l","a","n"," ","1","0" >>

Line_vlan_1 == << "v","l","a","n"," ","1" >>

Line_name_SALES == << "n","a","m","e"," ","S","A","L","E","S" >>

\* Lines that walk the mode hierarchy
Lines ==
    {Cmd_enable, Cmd_configure_terminal, Line_interface_g0_1, Line_vlan_10,
     Cmd_exit, Cmd_end}

\* Lines that create and name VLANs
VlanLines ==
    {Cmd_enable, Cmd_configure_terminal, Line_vlan_10, Line_vlan_1,
     Line_name_SALES, Cmd_exit}

\* The device the user clicks: the Core Switch
ClickedDevices == {4}

InitOffice(nodeLists) ==
    /\ nodes \in nodeLists
    /\ edges = SmallOfficeEdges
    /\ InitTerminal
    /\ simResult = NoSim
    /\ matchArgs = NoMatchArgs
    /\ matchResult = NoMatch
    /\ toast = NoToast
    /\ idCounter = 0

Init == InitOffice({OfficeNodes})

Next ==
    \/ \E cmdRaw \in Lines : handleCommand(cmdRaw)
    \/ \E i \in ClickedDevices : onNodeClick(i)
    \/ openTerminal
    \/ onClose

Spec == Init /\ [][Next]_vars

InitVlan == InitOffice({OfficeNodes, ConfiguredOfficeNodes})

NextVlan ==
    \/ \E cmdRaw \in VlanLines : handleCommand(cmdRaw)
    \/ \E i \in ClickedDevices : onNodeClick(i)
    \/ openTerminal
    \/ onClose

SpecVlan == InitVlan /\ [][NextVlan]_vars
-----------------------------------------------------------------------------
\* Claims about the command interpreter

\* The mode one level above a mode
OneLevelUp(mode) ==
    CASE mode \in {InterfaceConfig, VlanConfig, LineConfig} -> GlobalConfig
      [] mode = GlobalConfig -> PrivilegedExec
      [] mode = PrivilegedExec -> UserExec

\* What the mode hierarchy asks of a step that takes the line cmdRaw
ModeStep(cmdRaw) ==
    LET mode == terminalState.mode
        after == terminalState'
    IN  /\ (cmdRaw = Cmd_enable /\ mode = UserExec)
               => (after.isOpen /\ after.mode = PrivilegedExec)
        /\ (cmdRaw = Cmd_configure_terminal /\ mode = PrivilegedExec)
               => (after.isOpen /\ after.mode = GlobalConfig)
        /\ (cmdRaw = Cmd_exit /\ mode = UserExec) => ~after.isOpen
        /\ (cmdRaw = Cmd_exit /\ mode # UserExec)
               => (after.isOpen /\ after.mode = OneLevelUp(mode))
        /\ (cmdRaw = Cmd_end /\ mode \in {InterfaceConfig, VlanConfig, LineConfig})
               => (after.isOpen /\ after.mode = PrivilegedExec)

\* The same for a session in LineConfig, a mode no command enters
LineConfigStep ==
    LET w == World([terminalState EXCEPT !.mode = LineConfig], nodes, edges,
                   contextInt, contextVlan, contextLine)
    IN  /\ handleCommandResult(w, Cmd_exit).kind = "done"
        /\ handleCommandResult(w, Cmd_exit).mode = GlobalConfig
        /\ handleCommandResult(w, Cmd_end).kind = "done"
        /\ handleCommandResult(w, Cmd_end).mode = PrivilegedExec

\* C1: a session opens in UserExec; enable in UserExec leads to
\* PrivilegedExec and configure terminal in PrivilegedExec to GlobalConfig;
\* exit leads exactly one level up (InterfaceConfig, VlanConfig, LineConfig ->
\* GlobalConfig -> PrivilegedExec -> UserExec) and closes the session in
\* UserExec; end in InterfaceConfig, VlanConfig or LineConfig leads to
\* PrivilegedExec.
C1_ModeHierarchy ==
    [][/\ openTerminal => (terminalState'.isOpen /\ terminalState'.mode = UserExec)
       /\ \A cmdRaw \in Lines : handleCommand(cmdRaw) => ModeStep(cmdRaw)
       /\ LineConfigStep]_vars

\* The session went enable, configure terminal, interface g0/1, exit and is
\* in GlobalConfig
C1_Witness ==
    /\ terminalState.isOpen
    /\ terminalState.history =
           << Cmd_enable, Cmd_configure_terminal, Line_interface_g0_1, Cmd_exit >>
    /\ terminalState.mode = GlobalConfig

\* handleCommand leaves mode, context and device configuration as they are
LeavesAllUnchanged(w, r) ==
    /\ r.kind = "done"
    /\ r.mode = w.state.mode
    /\ r.contextInt = w.contextInt
    /\ r.contextVlan = w.contextVlan
    /\ r.contextLine = w.contextLine
    /\ r.nodes = w.nodes

\* C7: in every mode and device state, sh run and show running-config get the
\* same response, and both leave mode, context and device configuration
\* unchanged.
C7_AbbreviationEquivalence ==
    (terminalState.isOpen /\ ~isBooting) =>
        LET short == handleCommandResult(CurrentWorld, Cmd_sh_run)
            long == handleCommandResult(CurrentWorld, Cmd_show_running_config)
        IN  /\ short.response = long.response
            /\ LeavesAllUnchanged(CurrentWorld, short)
            /\ LeavesAllUnchanged(CurrentWorld, long)

\* The commands the claim about do names
DoCommands ==
    {Cmd_show_running_config, Cmd_sh_run, Cmd_show_vlan_brief, Cmd_show_ip_interface_brief}

\* C9: in every mode and state, do <cmd> gets the response <cmd> gets in
\* PrivilegedExec on the same device state, and leaves the session's mode and
\* context as they were.
C9_DoEquivalence ==
    (terminalState.isOpen /\ ~isBooting) =>
        \A c \in DoCommands :
            LET inPrivileged == World([terminalState EXCEPT !.mode = PrivilegedExec], nodes,
                                      edges, contextInt, contextVlan, contextLine)
                direct == handleCommandResult(inPrivileged, c)
                viaDo == handleCommandResult(CurrentWorld, Cmd_do \o << " " >> \o c)
            IN  /\ viaDo.response = direct.response
                /\ viaDo.kind = "done"
                /\ viaDo.mode = terminalState.mode
                /\ viaDo.contextInt = contextInt
                /\ viaDo.contextVlan = contextVlan
                /\ viaDo.contextLine = contextLine

\* The id a vlan line names
TypedVlanId(cmdRaw) == IF cmdRaw = Line_vlan_10 THEN 10 ELSE 1

\* VLAN followed by the id as four decimal digits
FourDigitName(vid) ==
    << "V", "L", "A", "N",
       Digits[((vid \div 1000) % 10) + 1], Digits[((vid \div 100) % 10) + 1],
       Digits[((vid \div 10) % 10) + 1], Digits[(vid % 10) + 1] >>

\* The stored VLAN entries of the session's device, none when it has no table
StoredVlans(nds) ==
    LET n == FindNode(nds, terminalState.nodeId)
    IN  IF n.vlanDb.defined THEN n.vlanDb.entries ELSE << >>

\* The same, with VLAN 1 named default for a device that has no table
ResolvedVlans(nds) ==
    LET n == FindNode(nds, terminalState.nodeId)
    IN  IF n.vlanDb.defined THEN n.vlanDb.entries ELSE DefaultVlanEntries

VlanIds(entries) == {entries[i].vid : i \in 1..Len(entries)}

\* What vlan <id> makes of the table `before`
VlanStep(cmdRaw, before) ==
    LET vid == TypedVlanId(cmdRaw)
        after == StoredVlans(nodes')
    IN  /\ terminalState'.mode = VlanConfig
        /\ contextVlan' = vid
        /\ HasVlan(after, vid)
        /\ VlanName(after, vid) =
               IF HasVlan(before, vid) THEN VlanName(before, vid) ELSE FourDigitName(vid)
        /\ VlanIds(after) \ {vid} = VlanIds(before) \ {vid}
        /\ \A v \in VlanIds(before) \ {vid} : VlanName(after, v) = VlanName(before, v)

\* A step that takes vlan <id> in GlobalConfig on a switch
IsVlanStep(cmdRaw) ==
    /\ cmdRaw \in {Line_vlan_10, Line_vlan_1}
    /\ terminalState.mode = GlobalConfig
    /\ FindNode(nodes, terminalState.nodeId).type \in {SWITCH_L2, SWITCH_L3}
    /\ handleCommand(cmdRaw)

\* C10 as stated: vlan <id> in GlobalConfig on a switch leads to VlanConfig
\* with context <id>; an id the stored table lacks gets the name VLAN and four
\* digits, an id it holds keeps its name, and no other entry changes.
C10_VlanCommandAsStated ==
    [][\A cmdRaw \in VlanLines :
           IsVlanStep(cmdRaw) => VlanStep(cmdRaw, StoredVlans(nodes))]_vars

\* C10: vlan <id> in GlobalConfig on a switch leads to VlanConfig with context
\* <id>; the table of a device that has none counts as holding VLAN 1 named
\* default; an id the table lacks gets the name VLAN and four digits, an id it
\* holds keeps its name, and no other entry changes.
C10_VlanCommand ==
    [][\A cmdRaw \in VlanLines :
           IsVlanStep(cmdRaw) => VlanStep(cmdRaw, ResolvedVlans(nodes))]_vars

\* vlan 10 was taken on the switch whose VLAN 10 is named SALES, and it still is
C10_Witness ==
    /\ terminalState.isOpen
    /\ terminalState.mode = VlanConfig
    /\ contextVlan = 10
    /\ terminalState.history = << Cmd_enable, Cmd_configure_terminal, Line_vlan_10 >>
    /\ VlanName(StoredVlans(nodes), 10) = Name_SALES

-----------------------------------------------------------------------------
\* VLAN commands on a device that is not a switch

\* Lines that try to create and name a VLAN
NonSwitchLines ==
    {Cmd_enable, Cmd_configure_terminal, Line_vlan_10, Line_name_SALES}

\* The devices the user clicks: the Gateway Router and the Core Switch
RouterAndSwitch == {3, 4}

NextNonSwitch ==
    \/ \E cmdRaw \in NonSwitchLines : handleCommand(cmdRaw)
    \/ \E i \in RouterAndSwitch : onNodeClick(i)
    \/ openTerminal
    \/ onClose

SpecNonSwitch == Init /\ [][NextNonSwitch]_vars

Text_VlanRejection == Fixed("% Command rejected: Device does not support VLANs.")

\* The device the session is bound to
BoundDevice == FindNode(nodes, terminalState.nodeId)

\* The device kinds that take VLANs
IsSwitchKind(node) == node # NoNode /\ node.type \in {SWITCH_L2, SWITCH_L3}

\* C11: on a session bound to a device that is neither SwitchL2 nor SwitchL3,
\* vlan <id> in GlobalConfig answers with the rejection text, the mode stays
\* GlobalConfig and the VLAN context is not set; no step adds to the VLAN
\* table of such a device, and a session bound to one is never in VlanConfig.
C11_VlanRejection ==
    [][/\ (/\ terminalState.mode = GlobalConfig
           /\ ~IsSwitchKind(BoundDevice)
           /\ handleCommand(Line_vlan_10))
          => /\ output' = appendOutput(output, terminalState, Line_vlan_10,
                                       Text_VlanRejection)
             /\ terminalState'.isOpen
             /\ terminalState'.mode = GlobalConfig
             /\ contextVlan' = contextVlan
       /\ \A i \in 1..Len(nodes) :
              ~IsSwitchKind(nodes[i]) => nodes'[i].vlanDb = nodes[i].vlanDb
       /\ (terminalState'.isOpen /\ ~IsSwitchKind(FindNode(nodes', terminalState'.nodeId)))
              => terminalState'.mode # VlanConfig]_vars

\* vlan 10 was rejected in GlobalConfig on the Gateway Router
C11_Witness ==
    /\ terminalState.isOpen
    /\ terminalState.nodeId = "r-0"
    /\ terminalState.mode = GlobalConfig
    /\ terminalState.history = << Cmd_enable, Cmd_configure_terminal, Line_vlan_10 >>
    /\ output # << >>
    /\ << output[Len(output)] >> = Text_VlanRejection
    /\ ~BoundDevice.vlanDb.defined

-----------------------------------------------------------------------------
\* switchport access vlan and the device across the link

Line_interface_g0_3 == << "i","n","t","e","r","f","a","c","e"," ","g","0","/","3" >>

Line_switchport_access_vlan_10 == << "s","w","i","t","c","h","p","o","r","t"," ","a","c","c","e","s","s"," ","v","l","a","n"," ","1","0" >>

PropagationLines ==
    {Cmd_enable, Cmd_configure_terminal, Line_interface_g0_1, Line_interface_g0_3,
     Line_switchport_access_vlan_10}

\* The kinds of the device at the far end of the switch's third link
EndDeviceKinds == {PC, PRINTER, SERVER, LAPTOP}

\* The small-office devices as a loaded topology holds them, the end device
\* being of kind t
OfficeNodesWith(t) ==
    [i \in 1..Len(OfficeNodes) |->
        IF OfficeNodes[i].id = "pc-0" THEN [OfficeNodes[i] EXCEPT !.type = t]
        ELSE OfficeNodes[i]]

\* The small-office links in the order of the template, and in another order
OfficeEdgeLists ==
    {SmallOfficeEdges,
     << SmallOfficeEdges[3], SmallOfficeEdges[1], SmallOfficeEdges[2] >>}

InitPropagation ==
    /\ nodes \in {OfficeNodesWith(t) : t \in EndDeviceKinds}
    /\ edges \in OfficeEdgeLists
    /\ InitTerminal
    /\ simResult = NoSim
    /\ matchArgs = NoMatchArgs
    /\ matchResult = NoMatch
    /\ toast = NoToast
    /\ idCounter = 0

NextPropagation ==
    \/ \E cmdRaw \in PropagationLines : handleCommand(cmdRaw)
    \/ \E i \in ClickedDevices : onNodeClick(i)
    \/ openTerminal
    \/ onClose

SpecPropagation == InitPropagation /\ [][NextPropagation]_vars

\* The links at the bound device, and the place of one among them by link id
IncidentLinks == {i \in 1..Len(edges) : terminalState.nodeId \in {edges[i].source, edges[i].target}}

PlaceById(i) == Cardinality({j \in IncidentLinks : LessStr(edges[j].id, edges[i].id)}) + 1

FarEnd(i) ==
    IF edges[i].source = terminalState.nodeId THEN edges[i].target ELSE edges[i].source

\* The devices across the link whose place is the trailing number of the
\* current interface name
NeighborIds ==
    {FarEnd(i) : i \in {j \in IncidentLinks :
                            PlaceById(j) = DigitsValue(TrailingDigits(contextInt), 0)}}

\* C12: switchport access vlan <id> on the current interface stores <id> in
\* it; the trailing number of the interface name is a 1-based index into the
\* bound device's links sorted by link id; a PC, Printer or Server across that
\* link gets the display VLAN tag <id> and nothing else of it changes; a
\* neighbor of another kind and every other device stay as they are.
C12_VlanPropagation ==
    [][(terminalState.mode = InterfaceConfig /\ handleCommand(Line_switchport_access_vlan_10))
       => \A i \in 1..Len(nodes) :
              IF nodes[i].id = terminalState.nodeId
              THEN /\ HasInterface(nodes'[i].interfaces, contextInt)
                   /\ InterfaceOf(nodes'[i].interfaces, contextInt).accessVlan = 10
              ELSE IF nodes[i].id \in NeighborIds /\ nodes[i].type \in {PC, PRINTER, SERVER}
              THEN nodes'[i] = [nodes[i] EXCEPT !.assignedVlan = 10]
              ELSE nodes'[i] = nodes[i]]_vars

\* The PC on the switch's third link by id carries the tag 10 after
\* interface g0/3 and switchport access vlan 10, the links being listed in
\* another order
C12_Witness ==
    /\ terminalState.isOpen
    /\ terminalState.history = << Cmd_enable, Cmd_configure_terminal, Line_interface_g0_3,
                                  Line_switchport_access_vlan_10 >>
    /\ edges # SmallOfficeEdges
    /\ FindNode(nodes, "pc-0").type = PC
    /\ FindNode(nodes, "pc-0").assignedVlan = 10
    /\ FindNode(nodes, "r-0").assignedVlan = 0

-----------------------------------------------------------------------------
\* interface <name> on a name that exists and on one that does not

Line_interface_Gi0_1 == << "i","n","t","e","r","f","a","c","e"," ","G","i","0","/","1" >>

Line_interface_GigabitEthernet0_1 == << "i","n","t","e","r","f","a","c","e"," ","G","i","g","a","b","i","t","E","t","h","e","r","n","e","t","0","/","1" >>

Line_interface_g0_2 == << "i","n","t","e","r","f","a","c","e"," ","g","0","/","2" >>

InterfaceLines ==
    {Cmd_enable, Cmd_configure_terminal, Line_interface_g0_1, Line_interface_Gi0_1,
     Line_interface_GigabitEthernet0_1, Line_interface_g0_2, Cmd_exit}

\* The small-office devices after an earlier session on the Core Switch took
\* interface g0/1, shutdown, switchport mode trunk, switchport access vlan 10,
\* switchport trunk allowed vlan 10,20 and ip address 10.0.0.5 255.255.255.0
InterfaceOfficeNodes ==
    [i \in 1..Len(OfficeNodes) |->
        IF OfficeNodes[i].id = "sw-0"
        THEN [OfficeNodes[i] EXCEPT
                 !.interfaces =
                     [defined |-> TRUE,
                      entries |-> << [NewInterface(getInterfaceName(0)) EXCEPT
                                         !.shutdown = TRUE,
                                         !.switchportMode = "trunk",
                                         !.accessVlan = 10,
                                         !.trunkAllowedVlans = << "1","0",",","2","0" >>,
                                         !.ip = Ip_10_0_0_5,
                                         !.mask = << "2","5","5",".","2","5","5",".","2","5","5",".","0" >>] >>]]
        ELSE OfficeNodes[i]]

InitInterface == InitOffice({OfficeNodes, InterfaceOfficeNodes})

NextInterface ==
    \/ \E cmdRaw \in InterfaceLines : handleCommand(cmdRaw)
    \/ \E i \in ClickedDevices : onNodeClick(i)
    \/ openTerminal
    \/ onClose

SpecInterface == InitInterface /\ [][NextInterface]_vars

\* The full name an interface line names
NamedInterface(cmdRaw) ==
    IF cmdRaw = Line_interface_g0_2
    THEN << "G","i","g","a","b","i","t","E","t","h","e","r","n","e","t","0","/","2" >>
    ELSE << "G","i","g","a","b","i","t","E","t","h","e","r","n","e","t","0","/","1" >>

\* The interface records of a device, none when it has no table
InterfaceRecords(node) == IF node.interfaces.defined THEN node.interfaces.entries ELSE << >>

RecordsNamed(records, name) == {records[k] : k \in {j \in 1..Len(records) : records[j].name = name}}

RecordsNotNamed(records, name) ==
    {records[k] : k \in {j \in 1..Len(records) : records[j].name # name}}

\* C13: interface <name> in GlobalConfig, under every abbreviation of the
\* name, leaves a record that exists under the full name exactly as it is
\* (shutdown, switchport mode, access VLAN, trunk list, ip and mask); a name
\* that has no record gets one with shutdown false, mode access, access VLAN 1
\* and trunk list 1-4094; no other record and no other device changes.
C13_EnsureIdempotent ==
    [][\A cmdRaw \in InterfaceLines \ {Cmd_enable, Cmd_configure_terminal, Cmd_exit} :
           (terminalState.mode = GlobalConfig /\ handleCommand(cmdRaw))
           => LET name == NamedInterface(cmdRaw)
                  before == InterfaceRecords(BoundDevice)
                  after == InterfaceRecords(FindNode(nodes', terminalState.nodeId))
              IN  /\ contextInt' = name
                  /\ RecordsNotNamed(after, name) = RecordsNotNamed(before, name)
                  /\ RecordsNamed(after, name) =
                         IF RecordsNamed(before, name) # {}
                         THEN RecordsNamed(before, name)
                         ELSE {[name |-> name, shutdown |-> FALSE,
                                switchportMode |-> "access", accessVlan |-> 1,
                                trunkAllowedVlans |-> << "1","-","4","0","9","4" >>,
                                ip |-> Undefined, mask |-> Undefined,
                                description |-> Undefined]}
                  /\ Len(after) = Cardinality(RecordsNamed(after, name))
                                  + Cardinality(RecordsNotNamed(after, name))
                  /\ \A i \in 1..Len(nodes) :
                         nodes[i].id # terminalState.nodeId => nodes'[i] = nodes[i]]_vars

\* interface GigabitEthernet0/1 was taken on the switch whose record of that
\* name is shut down, a trunk, on access VLAN 10, and still is
C13_Witness ==
    /\ terminalState.isOpen
    /\ terminalState.mode = InterfaceConfig
    /\ terminalState.history =
           << Cmd_enable, Cmd_configure_terminal, Line_interface_GigabitEthernet0_1 >>
    /\ HasInterface(BoundDevice.interfaces, getInterfaceName(0))
    /\ InterfaceOf(BoundDevice.interfaces, getInterfaceName(0)).shutdown
    /\ InterfaceOf(BoundDevice.interfaces, getInterfaceName(0)).accessVlan = 10

-----------------------------------------------------------------------------
\* Commands that are answered with an error or with help

Line_bogus == << "b","o","g","u","s" >>

ErrorLines ==
    {Cmd_enable, Cmd_configure_terminal, Line_interface_g0_1, Cmd_question, Cmd_help,
     Line_bogus, Cmd_interface, Cmd_ping, Line_vlan_10}

\* The device the user clicks here: the Gateway Router
ErrorDevices == {3}

NextErrors ==
    \/ \E cmdRaw \in ErrorLines : handleCommand(cmdRaw)
    \/ \E i \in ErrorDevices : onNodeClick(i)
    \/ openTerminal
    \/ onClose

SpecErrors == Init /\ [][NextErrors]_vars

\* The responses that report a command error
ErrorResponses ==
    {Fixed("% Unknown command"), Fixed("% Incomplete command."),
     Fixed("% Invalid input detected at marker."), Text_VlanRejection}

\* The line cmdRaw is answered with a command error or is a help command
IsErrorOrHelp(cmdRaw) ==
    \/ cmdRaw \in {Cmd_question, Cmd_help}
    \/ /\ handleCommandResult(CurrentWorld, cmdRaw).kind = "done"
       /\ handleCommandResult(CurrentWorld, cmdRaw).response \in ErrorResponses

\* C14: a command answered with % Unknown command, % Incomplete command.,
\* % Invalid input detected at marker. or the VLAN rejection, and every ? and
\* help, leaves the mode, the three contexts and every device as they were,
\* and the session stays open, not booting, with an empty input box for the
\* next line.
C14_ErrorsChangeNothing ==
    [][\A cmdRaw \in ErrorLines :
           (/\ terminalState'.history = Append(terminalState.history, cmdRaw)
            /\ IsErrorOrHelp(cmdRaw)
            /\ handleCommand(cmdRaw))
           => /\ terminalState'.mode = terminalState.mode
              /\ terminalState'.hostname = terminalState.hostname
              /\ terminalState'.nodeId = terminalState.nodeId
              /\ contextInt' = contextInt
              /\ contextVlan' = contextVlan
              /\ contextLine' = contextLine
              /\ nodes' = nodes
              /\ edges' = edges
              /\ terminalState'.isOpen
              /\ ~isBooting'
              /\ input' = << >>]_vars

\* In InterfaceConfig with the context GigabitEthernet0/1, a bogus line was
\* answered with % Invalid input detected at marker.
C14_Witness ==
    /\ terminalState.isOpen
    /\ terminalState.mode = InterfaceConfig
    /\ contextInt = getInterfaceName(0)
    /\ terminalState.history =
           << Cmd_enable, Cmd_configure_terminal, Line_interface_g0_1, Line_bogus >>
    /\ << output[Len(output)] >> = Fixed("% Invalid input detected at marker.")

-----------------------------------------------------------------------------
\* reload

ReloadLines ==
    {Cmd_enable, Cmd_configure_terminal, Line_interface_g0_1, Cmd_reload, Cmd_clear}

NextReload ==
    \/ \E cmdRaw \in ReloadLines : handleCommand(cmdRaw)
    \/ reloadElapsed
    \/ \E i \in ClickedDevices : onNodeClick(i)
    \/ openTerminal
    \/ onClose

SpecReload == Init /\ [][NextReload]_vars

\* The timer that reload sets always fires
SpecReloadFair == SpecReload /\ WF_vars(reloadElapsed)

\* C15: reload in PrivilegedExec puts the session in the booting state, in
\* which no command line is taken; the step that ends it leaves the session in
\* UserExec with interface, VLAN and line context cleared; from reload to that
\* step the devices stay as they were; and the booting state always ends.
C15_Reload ==
    /\ [][/\ (terminalState.mode = PrivilegedExec /\ handleCommand(Cmd_reload))
             => (isBooting' /\ nodes' = nodes)
          /\ isBooting => \A cmdRaw \in ReloadLines : ~handleCommand(cmdRaw)
          /\ (isBooting \/ isBooting') => nodes' = nodes
          /\ (isBooting /\ ~isBooting')
             => /\ terminalState'.mode = UserExec
                /\ contextInt' = << >>
                /\ contextVlan' = 0
                /\ contextLine' = << >>]_vars
    /\ (isBooting ~> ~isBooting)

\* A reload has ended on the switch that an earlier session gave the
\* interface GigabitEthernet0/1: the session waits in UserExec, the interface
\* is still there
C15_Witness ==
    /\ terminalState.isOpen
    /\ ~isBooting
    /\ terminalState.mode = UserExec
    /\ output = Fixed("Press RETURN to get started.")
    /\ contextInt = << >>
    /\ HasInterface(BoundDevice.interfaces, getInterfaceName(0))

-----------------------------------------------------------------------------
\* Closing the terminal and opening it again

\* C16: when a CLI is opened after the session was closed, by exit in UserExec
\* or by the close button in any mode, the new session is in UserExec with
\* empty history and with no interface, VLAN or line context populated, and
\* every device is as it was.
C16_CloseReopen ==
    [][(~terminalState.isOpen /\ openTerminal)
       => /\ terminalState'.isOpen
          /\ terminalState'.mode = UserExec
          /\ terminalState'.history = << >>
          /\ contextInt' = << >>
          /\ contextVlan' = 0
          /\ contextLine' = << >>
          /\ nodes' = nodes]_vars

\* How many of the three contexts are populated
PopulatedContexts ==
    (IF contextInt # << >> THEN 1 ELSE 0) + (IF contextVlan # 0 THEN 1 ELSE 0)
    + (IF contextLine # << >> THEN 1 ELSE 0)

\* C17: in every state of an open session at most one of the interface, VLAN
\* and line contexts is populated, and a context is populated only while the
\* session is in its sub-mode.
C17_ContextInvariant ==
    terminalState.isOpen =>
        /\ PopulatedContexts <= 1
        /\ contextInt # << >> => terminalState.mode = InterfaceConfig
        /\ contextVlan # 0 => terminalState.mode = VlanConfig
        /\ contextLine # << >> => terminalState.mode = LineConfig

-----------------------------------------------------------------------------
\* The session history

Line_blank == << " ", " " >>

\* C18: every line that is not empty or blank is appended to the history of
\* the open session, whatever its outcome (reload and clear included), and an
\* empty or blank line adds nothing.
C18_HistoryAppend ==
    [][\A cmdRaw \in ReloadLines \cup {Line_blank} :
           (handleCommand(cmdRaw) /\ terminalState'.isOpen)
           => terminalState'.history =
                  IF Trim(cmdRaw) = << >> THEN terminalState.history
                  ELSE Append(terminalState.history, cmdRaw)]_vars

-----------------------------------------------------------------------------
\* The advisory hint that follows an error

\* What the hint service answers: nothing, or a sentence
TipTexts == {<< >>, << "T","r","y"," ","e","n","a","b","l","e"," ","f","i","r","s","t","." >>}

TipLines == {Cmd_enable, Line_bogus}

NextTips ==
    \/ \E cmdRaw \in TipLines : handleCommand(cmdRaw)
    \/ \E tip \in TipTexts : getCLIFixSettled(tip)
    \/ \E i \in ClickedDevices : onNodeClick(i)
    \/ openTerminal
    \/ onClose

SpecTips == Init /\ [][NextTips]_vars

\* C19: a hint that arrives while the terminal is closed, so after the
\* session that asked for it was closed, is not appended to the transcript
\* that the next session shows; an empty or failed hint appends nothing.
C19_StaleHintDiscarded ==
    [][\A tip \in TipTexts :
           (getCLIFixSettled(tip) /\ (~terminalState.isOpen \/ tip = << >>))
           => output' = output]_vars

-----------------------------------------------------------------------------
\* ping and the reachability engine

\* Addresses to ping: the Edge Router's, and one that no device has
PingAddresses == {Ip_192_168_1_1, Ip_10_0_0_5}

Line_ping(address) == Cmd_ping \o << " " >> \o address

Line_do_ping(address) == Cmd_do \o << " " >> \o Cmd_ping \o << " " >> \o address

\* The transcript shows five replies, or five timeouts
ShowsReplies(response) ==
    \E i \in 1..Len(response) :
        response[i].t \in {"!!!!!", "Sending 5, 100-byte ICMP Echos... !!!!!"}

ShowsTimeouts(response) == \E i \in 1..Len(response) : response[i].t = "....."

\* Some device has the management address and findPath reaches it from the
\* bound device
EngineReaches(address) ==
    \E i \in 1..Len(nodes) :
        /\ nodes[i].ip = address
        /\ findPath(nodes, edges, terminalState.nodeId, nodes[i].id).success

\* What the claim asks of the answer to a ping line for the address
AgreesWithEngine(cmdRaw, address) ==
    LET response == handleCommandResult(CurrentWorld, cmdRaw).response
    IN  /\ ShowsReplies(response) => EngineReaches(address)
        /\ ~EngineReaches(address) => ShowsTimeouts(response)

\* C20: ping A in UserExec and do ping A in every mode answer with the success
\* transcript only when some device has the address A and findPath from the
\* bound device to it succeeds, and with the failure transcript otherwise.
C20_PingAgreesWithEngine ==
    (terminalState.isOpen /\ ~isBooting) =>
        \A address \in PingAddresses :
            /\ terminalState.mode = UserExec => AgreesWithEngine(Line_ping(address), address)
            /\ AgreesWithEngine(Line_do_ping(address), address)

-----------------------------------------------------------------------------
\* App: editing the topology (drop, connect, delete)

\* How many devices are dropped, and how many links the canvas holds
MaxDrops == 2

MaxCables == 2

Msg_PcToPc == "PC connected directly to PC. Ensure IPs are in the same subnet."

Msg_InternetToPc == "DANGER: Direct Internet connection to PC! Please use a Firewall or Router."

Msg_SwitchToInternet == "L2 Switches cannot terminate ISP links directly without a Router/Gateway."

Msg_Established == "Connection established."

\* The level field left out of a result (undefined)
NoLevel == "<undefined>"

Validation(isValid, message, level) == [isValid |-> isValid, message |-> message, level |-> level]

\* A slip of validateConnection: the error proposal is refused.
validateConnectionRefusingError(sourceType, targetType) ==
    IF sourceType = PC /\ targetType = PC THEN Validation(TRUE, Msg_PcToPc, "warning")
    ELSE IF sourceType = INTERNET /\ targetType = PC
    THEN Validation(FALSE, Msg_InternetToPc, "error")
    ELSE IF sourceType = SWITCH_L2 /\ targetType = INTERNET
    THEN Validation(TRUE, Msg_SwitchToInternet, "warning")
    ELSE Validation(TRUE, Msg_Established, NoLevel)

\* validateConnection(sourceType, targetType)
validateConnection(sourceType, targetType) ==
    IF sourceType = PC /\ targetType = PC THEN Validation(TRUE, Msg_PcToPc, "warning")
    ELSE IF sourceType = INTERNET /\ targetType = PC
    THEN Validation(TRUE, Msg_InternetToPc, "error")
    ELSE IF sourceType = SWITCH_L2 /\ targetType = INTERNET
    THEN Validation(TRUE, Msg_SwitchToInternet, "warning")
    ELSE Validation(TRUE, Msg_Established, NoLevel)

\* The ids getId() hands out, `dndnode_${id++}`, and their characters
DroppedIds == << "dndnode_0", "dndnode_1", "dndnode_2", "dndnode_3" >>

getId(n) == DroppedIds[n + 1]

IdText(id) ==
    CASE id = "isp-1" -> << "i","s","p","-","1" >>
      [] id = "router-1" -> << "r","o","u","t","e","r","-","1" >>
      [] id = "sw-0" -> << "s","w","-","0" >>
      [] id \in {DroppedIds[k] : k \in 1..Len(DroppedIds)} ->
             << "d","n","d","n","o","d","e","_" >> \o NatToString((CHOOSE k \in 1..Len(DroppedIds) : DroppedIds[k] = id) - 1)

\* The palette of the sidebar: the label dragged with each kind
PaletteLabel(deviceType) ==
    CASE deviceType = PC -> << "P","C" >>
      [] deviceType = SWITCH_L2 -> << "S","w","i","t","c","h"," ","L","2" >>
      [] deviceType = ROUTER -> << "R","o","u","t","e","r" >>
      [] deviceType = INTERNET -> << "I","S","P"," ","/"," ","C","l","o","u","d" >>

\* reactflow addEdge of a connection without handle ids: the edge list as it
\* is when it already holds an edge with this source and target, else with
\* the edge `reactflow__edge-${source}-${target}` at its end
addEdge(source, target, eds) ==
    IF \E i \in 1..Len(eds) : eds[i].source = source /\ eds[i].target = target
    THEN eds
    ELSE Append(eds, Link(<< "r","e","a","c","t","f","l","o","w","_","_","e","d","g","e","-" >> \o IdText(source) \o << "-" >> \o IdText(target),
                          source, target))

\* TerminalWindow's state and the session, which editing leaves alone
SessionVars == << terminalState, contextInt, contextVlan, contextLine,
                  isBooting, historyIdx, input, output, reloadTimer, pendingTips >>

\* What onConnect does with the result of the validator
onConnectUpdates(validation, source, target) ==
    /\ toast' = [message |-> validation.message,
                 type |-> IF validation.level = NoLevel THEN "info" ELSE validation.level]
    /\ edges' = IF validation.isValid THEN addEdge(source, target, edges) ELSE edges
    /\ UNCHANGED << nodes, selectedNode, simResult, matchArgs, matchResult, idCounter >>
    /\ UNCHANGED SessionVars

\* onConnect(params): a connection drawn from the source device to the target
onConnect(source, target) ==
    /\ FindNode(nodes, source) # NoNode /\ FindNode(nodes, target) # NoNode
    /\ onConnectUpdates(validateConnection(FindNode(nodes, source).type,
                                           FindNode(nodes, target).type), source, target)

\* The 5000 ms timer of the toast effect
toastElapsed ==
    /\ toast # NoToast
    /\ toast' = NoToast
    /\ UNCHANGED << nodes, edges, selectedNode, simResult, matchArgs, matchResult, idCounter >>
    /\ UNCHANGED SessionVars

\* onDrop: a device of the palette dropped on the canvas; the label is read
\* after getId() has counted
onDrop(deviceType) ==
    /\ idCounter < MaxDrops
    /\ idCounter' = idCounter + 1
    /\ nodes' = Append(nodes, Device(getId(idCounter),
                                     PaletteLabel(deviceType) \o << " " >> \o NatToString(idCounter + 1),
                                     deviceType, "up", Undefined))
    /\ UNCHANGED << edges, selectedNode, simResult, matchArgs, matchResult, toast >>
    /\ UNCHANGED SessionVars

\* Backspace or Delete on the device clicked last: reactflow removes the device
\* and the edges connected to it, then calls onNodesDelete
onNodesDelete(i) ==
    /\ i \in 1..Len(nodes)
    /\ nodes' = SelectSeq(nodes, LAMBDA n : n.id # nodes[i].id)
    /\ edges' = SelectSeq(edges, LAMBDA e : ~(nodes[i].id = e.source \/ nodes[i].id = e.target))
    /\ selectedNode' = NoSelection
    /\ UNCHANGED << simResult, matchArgs, matchResult, toast, idCounter >>
    /\ UNCHANGED SessionVars

\* The 'Delete Device' button of the panel of the selected device
deleteDevice ==
    /\ selectedNode # NoSelection
    /\ nodes' = SelectSeq(nodes, LAMBDA n : n.id # selectedNode.id)
    /\ UNCHANGED << edges, selectedNode, simResult, matchArgs, matchResult, toast, idCounter >>
    /\ UNCHANGED SessionVars

\* App as constructed: INITIAL_NODES, no links, nothing selected
InitEdit ==
    /\ nodes = InitialNodes
    /\ edges = << >>
    /\ InitTerminal
    /\ simResult = NoSim
    /\ matchArgs = NoMatchArgs
    /\ matchResult = NoMatch
    /\ toast = NoToast
    /\ idCounter = 0

DroppedKinds == {PC, SWITCH_L2}

EditIds == {"isp-1", "router-1", getId(0), getId(1)}

SimulatedSources == {"isp-1"}

SimulatedTargets == {"router-1"}

NextEdit ==
    \/ \E deviceType \in DroppedKinds : onDrop(deviceType)
    \/ /\ Len(edges) < MaxCables
       /\ \E source \in EditIds : \E target \in EditIds \ {source} : onConnect(source, target)
    \/ toastElapsed
    \/ \E i \in 1..(Len(InitialNodes) + MaxDrops) : onNodeClick(i)
    \/ \E i \in 1..(Len(InitialNodes) + MaxDrops) : onNodesDelete(i)
    \/ deleteDevice
    \/ \E source \in SimulatedSources, target \in SimulatedTargets : handleSimulate(source, target)

SpecEdit == InitEdit /\ [][NextEdit]_vars

\* The kind of the device with this id in the device list
KindOf(id) == FindNode(nodes, id).type

\* The advisory level the validator's table gives an ordered pair of kinds
AdvisedLevel(sourceType, targetType) ==
    CASE sourceType = "PC" /\ targetType = "PC" -> "warning"
      [] sourceType = "INTERNET" /\ targetType = "PC" -> "error"
      [] sourceType = "SWITCH_L2" /\ targetType = "INTERNET" -> "warning"
      [] OTHER -> "info"

\* The kinds of DeviceType the model names
DeviceKinds == {ROUTER, SWITCH_L2, SWITCH_L3, FIREWALL, PC, LAPTOP, SERVER, PRINTER, INTERNET,
                ACCESS_POINT}

HasLink(eds, source, target) ==
    \E i \in 1..Len(eds) : eds[i].source = source /\ eds[i].target = target

-----------------------------------------------------------------------------
\* The port mapper on the links drawn between four devices

MaxPortLinks == 3

PortKinds == {PC}

NextPorts ==
    \/ \E deviceType \in PortKinds : onDrop(deviceType)
    \/ /\ Len(edges) < MaxPortLinks
       /\ \E source \in EditIds : \E target \in EditIds \ {source} : onConnect(source, target)
    \/ toastElapsed

SpecPorts == InitEdit /\ [][NextPorts]_vars

\* The links of a list incident to a device, as a set of places in the list
IncidentTo(eds, nodeId) == {i \in 1..Len(eds) : nodeId \in {eds[i].source, eds[i].target}}

\* How many links incident to the device have an id before this one's, plus one
RankAt(eds, nodeId, id) ==
    1 + Cardinality({i \in IncidentTo(eds, nodeId) : LessStr(eds[i].id, id)})

\* The interface name the port mapper gives the link with this id on the device
PortOf(eds, nodeId, id) ==
    getInterfaceName((CHOOSE k \in 1..Len(getSortedEdges(eds, nodeId)) :
                          getSortedEdges(eds, nodeId)[k].id = id) - 1)

PortText(n) == << "G","i","g","a","b","i","t","E","t","h","e","r","n","e","t","0","/" >> \o NatToString(n)

\* C22: on every device the incident links, in the lexical order of their
\* ids, are named GigabitEthernet0/1 .. GigabitEthernet0/k by position, each
\* link one name of its own whatever the order of the link list; and when a
\* new incident link's id comes before an existing one's, the number of every
\* incident link after it goes up by one.
C22_PortMapper ==
    /\ [](\A nodeId \in EditIds :
             /\ Len(getSortedEdges(edges, nodeId)) = Cardinality(IncidentTo(edges, nodeId))
             /\ \A i \in IncidentTo(edges, nodeId) :
                    PortOf(edges, nodeId, edges[i].id)
                        = PortText(RankAt(edges, nodeId, edges[i].id)))
    /\ [][\A nodeId \in EditIds :
             (Len(edges') = Len(edges) + 1 /\ nodeId \in {edges'[Len(edges')].source,
                                                        edges'[Len(edges')].target})
             => \A i \in IncidentTo(edges, nodeId) :
                    PortOf(edges', nodeId, edges[i].id)
                        = PortText(RankAt(edges, nodeId, edges[i].id)
                                   + (IF LessStr(edges'[Len(edges')].id, edges[i].id)
                                      THEN 1 ELSE 0))]_vars

\* The Edge Router has three links, and the one drawn last has the first port
C22_Witness ==
    /\ Cardinality(IncidentTo(edges, "router-1")) = 3
    /\ PortOf(edges, "router-1", edges[Len(edges)].id) = PortText(1)
    /\ "router-1" \in {edges[Len(edges)].source, edges[Len(edges)].target}
-----------------------------------------------------------------------------
\* VLAN ids that are not positive

Line_vlan_0 == << "v","l","a","n"," ","0" >>

Line_vlan_minus_5 == << "v","l","a","n"," ","-","5" >>

Line_switchport_access_vlan_minus_1 == << "s","w","i","t","c","h","p","o","r","t"," ","a","c","c","e","s","s"," ","v","l","a","n"," ","-","1" >>

VlanIdLines ==
    {Cmd_enable, Cmd_configure_terminal, Line_vlan_0, Line_vlan_minus_5, Line_interface_g0_3,
     Line_switchport_access_vlan_minus_1}

NextVlanIds ==
    \/ \E cmdRaw \in VlanIdLines : handleCommand(cmdRaw)
    \/ \E i \in ClickedDevices : onNodeClick(i)
    \/ openTerminal
    \/ onClose

SpecVlanIds == Init /\ [][NextVlanIds]_vars

\* C23: every id in a device's VLAN table, every interface's access VLAN and
\* every display VLAN tag of an end host is a positive integer (a device
\* without a tag holds 0 here), so `vlan <id>` and `switchport access vlan
\* <id>` with an id of zero or less create and assign nothing.
C23_VlanIdsPositive ==
    \A i \in 1..Len(nodes) :
        /\ \A k \in 1..Len(nodes[i].vlanDb.entries) : nodes[i].vlanDb.entries[k].vid > 0
        /\ \A k \in 1..Len(nodes[i].interfaces.entries) :
               nodes[i].interfaces.entries[k].accessVlan > 0
        /\ nodes[i].assignedVlan >= 0

\* C24: a session in UserExec leaves UserExec only by a line that matches
\* `enable`; `end` typed in UserExec leaves the session in UserExec.
C24_NoEscalation ==
    [][(terminalState.isOpen /\ terminalState.mode = UserExec
            /\ terminalState'.mode # UserExec)
       => /\ Len(terminalState'.history) = Len(terminalState.history) + 1
          /\ matchCmd(ToLowerCase(Trim(terminalState'.history[Len(terminalState'.history)])),
                      Cmd_enable)]_vars
-----------------------------------------------------------------------------
\* The engine on two ways round of equal length

\* C and D joined through A and through B
DetourLinkEnds == << << "C", "A" >>, << "A", "D" >>, << "C", "B" >>, << "B", "D" >> >>

\* Every order of a list
Orderings(seq) ==
    {[i \in 1..Len(seq) |-> seq[p[i]]] : p \in Permutations(1..Len(seq))}

InitDetour ==
    /\ \E tA \in {ROUTER, SWITCH_L2}, sB \in {"up", "down"},
          ipC \in {Ip_192_168_1_10, Ip_10_0_1_5} :
          nodes = AttrNodes(tA, SWITCH_L2, sB, "up", ipC, Ip_192_168_1_11)
    /\ edges \in Orderings(MakeLinks(DetourLinkEnds))
    /\ InitTerminal
    /\ simResult = NoSim
    /\ matchArgs = NoMatchArgs
    /\ matchResult = NoMatch
    /\ toast = NoToast
    /\ idCounter = 0

DetourEnds == {"C", "D"}

NextDetour ==
    \E source \in DetourEnds : \E target \in DetourEnds \ {source} : handleSimulate(source, target)

SpecDetour == InitDetour /\ [][NextDetour]_vars

\* The devices joined to a set of devices that are not down by links through
\* devices that are not down, within n links
RECURSIVE UpReach(_, _)
UpReach(reached, n) ==
    IF n = 0 THEN reached
    ELSE UpReach(reached \cup {nodes[i].id : i \in {j \in 1..Len(nodes) :
                                   /\ nodes[j].status # "down"
                                   /\ \E x \in reached : Joined(edges, x, nodes[j].id)}}, n - 1)

\* Some chain of links joins the two through devices none of which is down
UpJoined(source, target) ==
    /\ DeviceOf(source).status # "down"
    /\ target \in UpReach({source}, Len(nodes))

\* C25: a failure with the link-failure classification means that no chain of
\* links joins source and target through devices none of which is down; when
\* such a chain exists between two devices with valid addresses of the same
\* subnet, findPath succeeds.
C25_DownVerdictComplete ==
    Ran =>
        /\ Res.message.kind = MsgDown => ~UpJoined(Src, Tgt)
        /\ ( /\ UpJoined(Src, Tgt)
             /\ IsDottedQuad(DeviceOf(Src).ip) /\ IsDottedQuad(DeviceOf(Tgt).ip)
             /\ FirstThreeOctets(DeviceOf(Src).ip) = FirstThreeOctets(DeviceOf(Tgt).ip) )
           => Res.success

\* C26: the success flag and the hop count findPath returns are the same for
\* every order of the same links, and the same from target to source.
C26_LinkOrderIndependent ==
    Ran =>
        /\ \A eds \in Orderings(edges) :
               /\ findPath(nodes, eds, Src, Tgt).success = Res.success
               /\ findPath(nodes, eds, Src, Tgt).hops = Res.hops
        /\ findPath(nodes, edges, Tgt, Src).success = Res.success
        /\ findPath(nodes, edges, Tgt, Src).hops = Res.hops

\* C27: whatever devices and links were added and whatever devices were
\* deleted, both ends of every link are in the device list, and every id of a
\* path that findPath returns is the id of a device in the device list.
C27_PathsOverExistingDevices ==
    /\ [](\A i \in 1..Len(edges) : InDeviceList(edges[i].source) /\ InDeviceList(edges[i].target))
    /\ [][simResult' # simResult =>
              \A k \in 1..Len(simResult'.res.path) :
                  \E i \in 1..Len(nodes') : nodes'[i].id = simResult'.res.path[k]]_vars
-----------------------------------------------------------------------------
\* Hints and the commands that change an interface

HintLines ==
    {Cmd_enable, Cmd_configure_terminal, Line_interface_g0_1, Cmd_shutdown, Cmd_no_shutdown,
     Line_bogus}

\* getCLIFix without an API key: every hint is the empty text
HintTexts == {<< >>}

NextHints ==
    \/ \E cmdRaw \in HintLines : handleCommand(cmdRaw)
    \/ \E tip \in HintTexts : getCLIFixSettled(tip)
    \/ \E i \in ClickedDevices : onNodeClick(i)
    \/ openTerminal

SpecHints == Init /\ [][NextHints]_vars

\* C28: a hint is requested only by a command that changed neither the mode
\* nor any device's configuration; a command that changed the configuration,
\* such as `shutdown`, requests none.
C28_HintsOnlyForFailures ==
    [][pendingTips' > pendingTips =>
           /\ terminalState'.mode = terminalState.mode
           /\ nodes' = nodes]_vars
-----------------------------------------------------------------------------
\* A reload and a second device

TwoDeviceLines == {Cmd_enable, Cmd_reload}

NextReloadTwo ==
    \/ \E cmdRaw \in TwoDeviceLines : handleCommand(cmdRaw)
    \/ reloadElapsed
    \/ \E i \in RouterAndSwitch : onNodeClick(i)
    \/ openTerminal
    \/ onClose

SpecReloadTwo == Init /\ [][NextReloadTwo]_vars

\* C29: when the delay of a reload elapses while a session on another device
\* is open, that session keeps the hostname derived from its own device, and
\* its mode, its history and the Booting flag stay as they were.
C29_ReloadStaysInItsSession ==
    [][(/\ reloadTimer.pending /\ ~reloadTimer'.pending
        /\ terminalState.isOpen
        /\ DashSpaces(BoundDevice.label) # reloadTimer.hostname)
       => /\ terminalState'.hostname = DashSpaces(BoundDevice.label)
          /\ terminalState'.mode = terminalState.mode
          /\ terminalState'.history = terminalState.history
          /\ isBooting' = isBooting]_vars
-----------------------------------------------------------------------------
\* Commands typed without their argument

\* Each command that takes an argument, typed bare, with the mode it belongs to
BareCommands ==
    { << Cmd_ping, UserExec >>, << Cmd_hostname, GlobalConfig >>,
      << Cmd_interface, GlobalConfig >>, << Cmd_vlan, GlobalConfig >>,
      << Cmd_switchport_mode, InterfaceConfig >>,
      << Cmd_switchport_access_vlan, InterfaceConfig >>,
      << Cmd_switchport_trunk_allowed_vlan, InterfaceConfig >>,
      << Cmd_ip_address, InterfaceConfig >>, << Cmd_name, VlanConfig >> }

ArgumentLines ==
    {Cmd_enable, Cmd_configure_terminal, Line_interface_g0_1, Line_vlan_10}
    \cup {c[1] : c \in BareCommands}

NextArguments ==
    \/ \E cmdRaw \in ArgumentLines : handleCommand(cmdRaw)
    \/ \E i \in ClickedDevices : onNodeClick(i)
    \/ openTerminal

SpecArguments == Init /\ [][NextArguments]_vars

\* C30: ping, hostname, interface, vlan, switchport mode, switchport access
\* vlan, switchport trunk allowed vlan, ip address and name, typed in their
\* mode without an argument, are answered with `% Incomplete command.` and
\* leave the mode, the contexts and the devices as they were.
C30_MissingArguments ==
    [][\A c \in BareCommands :
           (/\ terminalState'.history = Append(terminalState.history, c[1])
            /\ terminalState.mode = c[2]
            /\ handleCommand(c[1]))
           => /\ << output'[Len(output')] >> = Fixed("% Incomplete command.")
              /\ terminalState'.mode = terminalState.mode
              /\ contextInt' = contextInt
              /\ contextVlan' = contextVlan
              /\ contextLine' = contextLine
              /\ nodes' = nodes]_vars
-----------------------------------------------------------------------------
\* ip address

Line_ip_address_two == << "i","p"," ","a","d","d","r","e","s","s"," ","1","0",".","0",".","0",".","1"," ","2","5","5",".","2","5","5",".","2","5","5",".","0" >>

Line_ip_address_one == << "i","p"," ","a","d","d","r","e","s","s"," ","1","0",".","0",".","0",".","1" >>

Line_ip_address_three == << "i","p"," ","a","d","d","r","e","s","s"," ","1","0",".","0",".","0",".","1"," ","2","5","5",".","2","5","5",".","2","5","5",".","0"," ","s","e","c","o","n","d","a","r","y" >>

Line_ip_address_bad == << "i","p"," ","a","d","d","r","e","s","s"," ","9","9","9",".","1"," ","m","a","s","k" >>

IpAddressLines ==
    {Line_ip_address_two, Line_ip_address_one, Line_ip_address_three, Line_ip_address_bad}

AddressLines ==
    {Cmd_enable, Cmd_configure_terminal, Line_interface_g0_1} \cup IpAddressLines

NextAddress ==
    \/ \E cmdRaw \in AddressLines : handleCommand(cmdRaw)
    \/ \E i \in ClickedDevices : onNodeClick(i)
    \/ openTerminal
    \/ onClose

SpecAddress == Init /\ [][NextAddress]_vars

\* The words of a typed line after its first two
ArgumentsOf(cmdRaw) ==
    SubSeq(SplitWs(Trim(cmdRaw)), 3, Len(SplitWs(Trim(cmdRaw))))

\* The device list with the address of one interface of one device replaced
WithAddress(nds, nodeId, ifName, ip, mask) ==
    [i \in 1..Len(nds) |->
        IF nds[i].id = nodeId
        THEN [nds[i] EXCEPT !.interfaces.entries =
                 [k \in 1..Len(nds[i].interfaces.entries) |->
                     IF nds[i].interfaces.entries[k].name = ifName
                     THEN [nds[i].interfaces.entries[k] EXCEPT !.ip = ip, !.mask = mask]
                     ELSE nds[i].interfaces.entries[k]]]
        ELSE nds[i]]

\* C31: `ip address` with exactly two arguments makes them the ip and mask of
\* the current interface, unvalidated, and changes nothing else; with any
\* other number of arguments the answer is `% Incomplete command.` and no
\* device changes; the mode stays InterfaceConfig.
C31_IpAddress ==
    [][\A cmdRaw \in IpAddressLines :
           (/\ terminalState'.history = Append(terminalState.history, cmdRaw)
            /\ terminalState.mode = InterfaceConfig
            /\ handleCommand(cmdRaw))
           => /\ terminalState'.mode = InterfaceConfig
              /\ contextInt' = contextInt
              /\ IF Len(ArgumentsOf(cmdRaw)) = 2
                 THEN nodes' = WithAddress(nodes, terminalState.nodeId, contextInt,
                                           ArgumentsOf(cmdRaw)[1], ArgumentsOf(cmdRaw)[2])
                 ELSE /\ << output'[Len(output')] >> = Fixed("% Incomplete command.")
                      /\ nodes' = nodes]_vars
-----------------------------------------------------------------------------
\* Interfaces shut down and the verdicts

Ip_192_168_1_254 == << "1","9","2",".","1","6","8",".","1",".","2","5","4" >>

\* The small office as a saved topology holds it: addresses on the Gateway
\* Router, the Core Switch and the User PC, and on the switch the interface
\* GigabitEthernet0/1 of an earlier session, shut down or not
AddressedOfficeNodes(shut) ==
    [i \in 1..Len(OfficeNodes) |->
        CASE OfficeNodes[i].id = "r-0" -> [OfficeNodes[i] EXCEPT !.ip = Ip_192_168_1_254]
          [] OfficeNodes[i].id = "pc-0" -> [OfficeNodes[i] EXCEPT !.ip = Ip_192_168_1_10]
          [] OfficeNodes[i].id = "sw-0" ->
                 [OfficeNodes[i] EXCEPT
                     !.ip = Ip_192_168_1_2,
                     !.interfaces =
                         [defined |-> TRUE,
                          entries |-> << [NewInterface(getInterfaceName(0)) EXCEPT
                                             !.shutdown = shut] >>]]
          [] OTHER -> OfficeNodes[i]]

InitShutdown == InitOffice({AddressedOfficeNodes(shut) : shut \in BOOLEAN})

ShutdownLines ==
    {Line_ping(Ip_192_168_1_254), Cmd_enable, Cmd_configure_terminal, Line_interface_g0_1,
     Cmd_shutdown}

NextShutdown ==
    \/ \E cmdRaw \in ShutdownLines : handleCommand(cmdRaw)
    \/ \E i \in ClickedDevices : onNodeClick(i)
    \/ openTerminal
    \/ onClose
    \/ handleSimulate("pc-0", "r-0")

SpecShutdown == InitShutdown /\ [][NextShutdown]_vars

\* visibleEdges: isShutdown of an edge, from the interfaces of its two ends
isShutdown(nds, e) ==
    \/ /\ FindNode(nds, e.source) # NoNode
       /\ \E k \in 1..Len(FindNode(nds, e.source).interfaces.entries) :
              FindNode(nds, e.source).interfaces.entries[k].shutdown
    \/ /\ FindNode(nds, e.target) # NoNode
       /\ \E k \in 1..Len(FindNode(nds, e.target).interfaces.entries) :
              FindNode(nds, e.target).interfaces.entries[k].shutdown

\* The device with this id has some interface that is shut down
HasShutInterface(nds, id) ==
    \E i \in 1..Len(nds) :
        /\ nds[i].id = id
        /\ \E k \in 1..Len(nds[i].interfaces.entries) : nds[i].interfaces.entries[k].shutdown

\* Some link between two neighbours on the path has an end with an interface
\* that is shut down
UsesDownLink(nds, eds, path) ==
    \E k \in 1..(Len(path) - 1) :
        /\ Joined(eds, path[k], path[k + 1])
        /\ HasShutInterface(nds, path[k]) \/ HasShutInterface(nds, path[k + 1])

\* C32: a link is administratively down exactly when one of its two ends has
\* an interface with shutdown = true; the display uses this, and findPath and
\* ping report no success over a path that uses such a link.
C32_LinkDownPredicate ==
    /\ [](\A i \in 1..Len(edges) :
             isShutdown(nodes, edges[i])
                 <=> (HasShutInterface(nodes, edges[i].source)
                      \/ HasShutInterface(nodes, edges[i].target)))
    /\ [][(simResult' # simResult /\ simResult'.res.success)
              => ~UsesDownLink(nodes', edges', simResult'.res.path)]_vars
    /\ [][(/\ terminalState'.history
                  = Append(terminalState.history, Line_ping(Ip_192_168_1_254))
           /\ terminalState.mode = UserExec
           /\ handleCommand(Line_ping(Ip_192_168_1_254))
           /\ ShowsReplies(handleCommandResult(CurrentWorld,
                                               Line_ping(Ip_192_168_1_254)).response))
              => ~UsesDownLink(nodes, edges,
                               findPath(nodes, edges, terminalState.nodeId, "r-0").path)]_vars
-----------------------------------------------------------------------------
\* Abbreviated and upper-case lines

Line_int_g0_1 == << "i","n","t"," ","g","0","/","1" >>

Line_vl_10 == << "v","l"," ","1","0" >>

Line_EXIT == << "E","X","I","T" >>

\* A typed line and the fully spelled lower-case line with the same arguments
AbbreviationPairs ==
    {<< Cmd_en, Cmd_enable >>, << Cmd_conf_t, Cmd_configure_terminal >>,
     << Line_int_g0_1, Line_interface_g0_1 >>, << Line_vl_10, Line_vlan_10 >>,
     << Line_EXIT, Cmd_exit >>}

AbbreviationLines == {p[1] : p \in AbbreviationPairs} \cup {p[2] : p \in AbbreviationPairs}

NextAbbreviation ==
    \/ \E cmdRaw \in AbbreviationLines : handleCommand(cmdRaw)
    \/ \E i \in ClickedDevices : onNodeClick(i)
    \/ openTerminal
    \/ onClose

SpecAbbreviation == Init /\ [][NextAbbreviation]_vars

\* C33: in every mode, a typed line whose keyword tokens are case-insensitive
\* prefixes of the canonical ones is answered as the fully spelled lower-case
\* line is: same mode, same contexts, same device configuration, same response.
C33_UniformAbbreviation ==
    (terminalState.isOpen /\ ~isBooting) =>
    \A p \in AbbreviationPairs :
        handleCommandResult(CurrentWorld, p[1]) = handleCommandResult(CurrentWorld, p[2])
-----------------------------------------------------------------------------
\* The display tag of an end host and the access VLAN of its switch port

Line_interface_f0_3 == << "i","n","t","e","r","f","a","c","e"," ","f","0","/","3" >>

TagLines ==
    {Cmd_enable, Cmd_configure_terminal, Line_interface_g0_3, Line_interface_f0_3,
     Line_switchport_access_vlan_10}

\* Links the small office has once one more is drawn
MaxTagLinks == 4

NextTags ==
    \/ \E cmdRaw \in TagLines : handleCommand(cmdRaw)
    \/ \E i \in ClickedDevices : onNodeClick(i)
    \/ openTerminal
    \/ /\ Len(edges) < MaxTagLinks
       /\ onConnect("isp-1", "sw-0")

SpecTags == Init /\ [][NextTags]_vars

\* The interface names the port mapper gives the links of a device
MappedNames(eds, nodeId) == {PortOf(eds, nodeId, eds[j].id) : j \in IncidentTo(eds, nodeId)}

\* The device at the other end of a link
OtherEnd(e, nodeId) == IF e.source = nodeId THEN e.target ELSE e.source

\* C34: an end host (PC, Printer, Server) that carries the display tag v is
\* linked only to switches whose interface for that link, as the port mapper
\* names it, has access VLAN v; and a step changes a display tag only when
\* the current interface name is one the port mapper gives a link of the
\* bound device.
C34_DisplayTagConsistency ==
    /\ [](\A i \in 1..Len(nodes) :
             (nodes[i].type \in {PC, PRINTER, SERVER} /\ nodes[i].assignedVlan # 0)
             => \A j \in IncidentTo(edges, nodes[i].id) :
                    FindNode(nodes, OtherEnd(edges[j], nodes[i].id)).type
                        \in {SWITCH_L2, SWITCH_L3}
                    => /\ HasInterface(FindNode(nodes, OtherEnd(edges[j], nodes[i].id)).interfaces,
                                       PortOf(edges, OtherEnd(edges[j], nodes[i].id), edges[j].id))
                       /\ InterfaceOf(FindNode(nodes, OtherEnd(edges[j], nodes[i].id)).interfaces,
                                      PortOf(edges, OtherEnd(edges[j], nodes[i].id), edges[j].id)).accessVlan
                              = nodes[i].assignedVlan)
    /\ [][(\E i \in 1..Len(nodes) : nodes'[i].assignedVlan # nodes[i].assignedVlan)
          => contextInt \in MappedNames(edges, terminalState.nodeId)]_vars
-----------------------------------------------------------------------------
\* switchport mode

Line_switchport_mode_trunk == << "s","w","i","t","c","h","p","o","r","t"," ","m","o","d","e"," ","t","r","u","n","k" >>

Line_switchport_mode_access == << "s","w","i","t","c","h","p","o","r","t"," ","m","o","d","e"," ","a","c","c","e","s","s" >>

Line_sw_mo_tr == << "s","w"," ","m","o"," ","t","r" >>

Line_switchport_mode == << "s","w","i","t","c","h","p","o","r","t"," ","m","o","d","e" >>

Line_switchport_mode_bogus == << "s","w","i","t","c","h","p","o","r","t"," ","m","o","d","e"," ","b","o","g","u","s" >>

SwitchportModeLines ==
    {Line_switchport_mode_trunk, Line_switchport_mode_access, Line_sw_mo_tr,
     Line_switchport_mode, Line_switchport_mode_bogus}

ModeLines ==
    {Cmd_enable, Cmd_configure_terminal, Line_interface_g0_1} \cup SwitchportModeLines

NextMode ==
    \/ \E cmdRaw \in ModeLines : handleCommand(cmdRaw)
    \/ \E i \in ClickedDevices : onNodeClick(i)
    \/ openTerminal
    \/ onClose

SpecMode == InitInterface /\ [][NextMode]_vars

\* The mode the third word of a line names, abbreviated or not; none when
\* the word is missing or names no mode
ModeNamed(cmdRaw) ==
    LET word == At(SplitWs(Trim(cmdRaw)), 2)
    IN  IF ~Truthy(word) THEN "none"
        ELSE IF StartsWith(Cmd_trunk, ToLowerCase(word)) THEN "trunk"
        ELSE IF StartsWith(<< "a","c","c","e","s","s" >>, ToLowerCase(word)) THEN "access"
        ELSE "none"

\* The device list with the mode of one interface of one device replaced
WithMode(nds, nodeId, ifName, mode) ==
    [i \in 1..Len(nds) |->
        IF nds[i].id = nodeId
        THEN [nds[i] EXCEPT !.interfaces.entries =
                 [k \in 1..Len(nds[i].interfaces.entries) |->
                     IF nds[i].interfaces.entries[k].name = ifName
                     THEN [nds[i].interfaces.entries[k] EXCEPT !.switchportMode = mode]
                     ELSE nds[i].interfaces.entries[k]]]
        ELSE nds[i]]

\* C35: `switchport mode <m>` makes the named mode, access or trunk, spelled
\* out or abbreviated, the mode of the current interface; with the argument
\* missing or naming no mode the stored mode stays; no other field, no other
\* interface and no other device changes, and the session stays in
\* InterfaceConfig on the same interface.
C35_SwitchportMode ==
    [][\A cmdRaw \in SwitchportModeLines :
           (/\ terminalState'.history = Append(terminalState.history, cmdRaw)
            /\ terminalState.mode = InterfaceConfig
            /\ handleCommand(cmdRaw))
           => /\ terminalState'.mode = InterfaceConfig
              /\ contextInt' = contextInt
              /\ IF ModeNamed(cmdRaw) = "none"
                 THEN nodes' = nodes
                 ELSE nodes' = WithMode(nodes, terminalState.nodeId, contextInt,
                                        ModeNamed(cmdRaw))]_vars
-----------------------------------------------------------------------------
\* hostname

Name_SW1 == << "S","W","1" >>

Line_hostname_SW1 == << "h","o","s","t","n","a","m","e"," ","S","W","1" >>

HostnameLines == {Cmd_enable, Cmd_configure_terminal, Line_hostname_SW1, Cmd_hostname}

NextHostname ==
    \/ \E cmdRaw \in HostnameLines : handleCommand(cmdRaw)
    \/ \E i \in ClickedDevices : onNodeClick(i)
    \/ openTerminal
    \/ onClose

SpecHostname == Init /\ [][NextHostname]_vars

\* The device list with the hostname of one device replaced
WithHostname(nds, nodeId, name) ==
    [i \in 1..Len(nds) |->
        IF nds[i].id = nodeId THEN [nds[i] EXCEPT !.hostname = name] ELSE nds[i]]

\* C36: `hostname <name>` in GlobalConfig makes <name> the hostname of the
\* bound device and of the session and keeps GlobalConfig; no other field of
\* the bound device (display label, management IP, VLAN table, interfaces,
\* routing flag) and no other device changes.
C36_Hostname ==
    [][(/\ terminalState.mode = GlobalConfig
        /\ handleCommand(Line_hostname_SW1))
       => /\ terminalState'.hostname = Name_SW1
          /\ terminalState'.mode = GlobalConfig
          /\ nodes' = WithHostname(nodes, terminalState.nodeId, Name_SW1)]_vars
-----------------------------------------------------------------------------
\* shutdown and no shutdown

ShutdownCommands == {Cmd_shutdown, Cmd_no_shutdown}

FlagLines ==
    {Cmd_enable, Cmd_configure_terminal, Line_interface_g0_1, Line_interface_g0_2}
        \cup ShutdownCommands

NextFlag ==
    \/ \E cmdRaw \in FlagLines : handleCommand(cmdRaw)
    \/ \E i \in ClickedDevices : onNodeClick(i)
    \/ openTerminal
    \/ onClose

SpecFlag == InitInterface /\ [][NextFlag]_vars

\* The device list with the shutdown flag of one interface of one device replaced
WithShutdown(nds, nodeId, ifName, flag) ==
    [i \in 1..Len(nds) |->
        IF nds[i].id = nodeId
        THEN [nds[i] EXCEPT !.interfaces.entries =
                 [k \in 1..Len(nds[i].interfaces.entries) |->
                     IF nds[i].interfaces.entries[k].name = ifName
                     THEN [nds[i].interfaces.entries[k] EXCEPT !.shutdown = flag]
                     ELSE nds[i].interfaces.entries[k]]]
        ELSE nds[i]]

\* The world after handleCommand took one line in the world w
WorldAfter(w, cmdRaw) ==
    World([w.state EXCEPT !.mode = handleCommandResult(w, cmdRaw).mode,
                          !.hostname = handleCommandResult(w, cmdRaw).hostname],
          handleCommandResult(w, cmdRaw).nodes, w.edges,
          handleCommandResult(w, cmdRaw).contextInt,
          handleCommandResult(w, cmdRaw).contextVlan,
          handleCommandResult(w, cmdRaw).contextLine)

\* C37: `shutdown` makes the shutdown flag of the current interface true and
\* `no shutdown` makes it false; nothing but that field of that interface
\* record changes, the session stays in InterfaceConfig on the same
\* interface, and the same line typed again changes nothing more.
C37_ShutdownFlag ==
    /\ [][\A cmdRaw \in ShutdownCommands :
              (/\ terminalState'.history = Append(terminalState.history, cmdRaw)
               /\ terminalState.mode = InterfaceConfig
               /\ handleCommand(cmdRaw))
              => /\ terminalState'.mode = InterfaceConfig
                 /\ contextInt' = contextInt
                 /\ HasInterface(BoundDevice.interfaces, contextInt)
                 /\ nodes' = WithShutdown(nodes, terminalState.nodeId, contextInt,
                                          cmdRaw = Cmd_shutdown)]_vars
    /\ [](\A cmdRaw \in ShutdownCommands :
              (terminalState.isOpen /\ terminalState.mode = InterfaceConfig)
              => handleCommandResult(WorldAfter(CurrentWorld, cmdRaw), cmdRaw)
                     = handleCommandResult(CurrentWorld, cmdRaw))

\* GigabitEthernet0/1 of the Core Switch, a trunk that was shut down, has
\* been brought up by no shutdown and is a trunk still
C37_Witness ==
    /\ terminalState.isOpen
    /\ terminalState.mode = InterfaceConfig
    /\ terminalState.history[Len(terminalState.history)] = Cmd_no_shutdown
    /\ contextInt = PortText(1)
    /\ HasInterface(BoundDevice.interfaces, contextInt)
    /\ ~InterfaceOf(BoundDevice.interfaces, contextInt).shutdown
    /\ InterfaceOf(BoundDevice.interfaces, contextInt).switchportMode = "trunk"
-----------------------------------------------------------------------------
\* TerminalWindow: handleKeyDown, the arrow keys

\* state.history[i]: undefined outside the array
HistoryAt(history, i) ==
    IF i >= 0 /\ i < Len(history) THEN history[i + 1] ELSE Undefined

\* Math.min
MathMin(a, b) == IF a < b THEN a ELSE b

\* handleKeyDown for ArrowUp and ArrowDown; the input box is rendered while
\* the window is open and the device is not booting
handleKeyDown(key) ==
    /\ terminalState.isOpen /\ ~isBooting
    /\ CASE key = "ArrowUp" ->
                IF Len(terminalState.history) > 0
                THEN /\ historyIdx' = (IF historyIdx = -1 THEN 0
                                       ELSE MathMin(historyIdx + 1,
                                                    Len(terminalState.history) - 1))
                     /\ input' = HistoryAt(terminalState.history,
                                           Len(terminalState.history) - 1 - historyIdx')
                ELSE UNCHANGED << historyIdx, input >>
         [] key = "ArrowDown" ->
                IF historyIdx > 0
                THEN /\ historyIdx' = historyIdx - 1
                     /\ input' = HistoryAt(terminalState.history,
                                           Len(terminalState.history) - 1 - (historyIdx - 1))
                ELSE /\ historyIdx' = -1
                     /\ input' = << >>
    /\ UNCHANGED << nodes, edges, selectedNode, terminalState, contextInt, contextVlan,
                    contextLine, isBooting, output, reloadTimer, pendingTips,
                    simResult, matchArgs, matchResult, toast, idCounter >>

RecallLines == {Cmd_enable, Cmd_configure_terminal}

NextRecall ==
    \/ \E cmdRaw \in RecallLines : handleCommand(cmdRaw)
    \/ \E key \in {"ArrowUp", "ArrowDown"} : handleKeyDown(key)
    \/ \E i \in ClickedDevices : onNodeClick(i)
    \/ openTerminal
    \/ onClose

SpecRecall == Init /\ [][NextRecall]_vars

\* The k-th most recent line of a history, k from 1
Recent(history, k) == history[Len(history) + 1 - k]

\* C38: the recall position is the sentinel -1 or the index of an existing
\* history entry, also after a close and a reopen that empties the history,
\* and the input line is never undefined; 'previous' shows the next older
\* line and stops at the oldest; 'next' shows the next newer line, and at the
\* most recent line it empties the input.
C38_RecallInBounds ==
    /\ [](/\ historyIdx \in (-1)..(Len(terminalState.history) - 1)
          /\ input # Undefined)
    /\ [][/\ (handleKeyDown("ArrowUp") /\ Len(terminalState.history) >= 1)
             => /\ historyIdx' = MathMin(historyIdx + 1, Len(terminalState.history) - 1)
                /\ input' = Recent(terminalState.history, historyIdx' + 1)
          /\ (handleKeyDown("ArrowDown") /\ historyIdx >= 1)
             => /\ historyIdx' = historyIdx - 1
                /\ input' = Recent(terminalState.history, historyIdx' + 1)
          /\ (handleKeyDown("ArrowDown") /\ historyIdx <= 0)
             => /\ historyIdx' = -1
                /\ input' = << >>]_vars
====
